---- MODULE Spec2Model ----
(***************************************************************************)
(* Model of the recipe pipeline of florence-mcp-servers:                   *)
(*   shared/types/recipe.py           Ingredient, NutritionInfo, Recipe    *)
(*   tools/search_recipes.py          search_recipes, _sort_by_relevance   *)
(*   services/spoonacular.py          SpoonacularService                   *)
(*   tools/get_recipe_details.py      get_recipe_details                   *)
(*   main.py                          handle_call_tool                     *)
(*                                                                         *)
(* Conventions.                                                            *)
(*   - A Python str is a sequence of one-character strings, so that        *)
(*     lower(), split(), "in" and concatenation are computed.              *)
(*   - Optional[T] is <<>> (None) or <<v>> (a value).                      *)
(*   - A Python float is an exact reduced fraction [num, den].             *)
(*   - Mutable objects (lists, Ingredient, NutritionInfo) live in heaps    *)
(*     indexed by address; a Recipe holds addresses.                       *)
(***************************************************************************)
EXTENDS Integers, Sequences, FiniteSets, TLC

VARIABLES
    \* ---- Recipe.scale_recipe and in-place mutation (Spec) ----
    original,         \* the Recipe object scale_recipe is called on
    scaled,           \* Optional[Recipe]: what scale_recipe returned
    err,              \* the exception scale_recipe raised, "none" if none
    called,           \* Optional[int]: the argument of the scale_recipe call
    list_heap,        \* address -> list of str
    ingredient_heap,  \* address -> Ingredient
    inglist_heap,     \* address -> list of Ingredient addresses
    nutrition_heap,   \* address -> NutritionInfo
    clock,            \* datetime.now()
    before,           \* values of original and scaled right after the call
    touched,          \* which recipes were changed in place since the call
    \* ---- to_dict / from_dict (SerialSpec) ----
    ser_kind,         \* "ingredient" or "recipe": the class of ser_subject
    ser_subject,      \* the object to_dict is called on
    ser_dict,         \* Optional[dict]: what to_dict returned
    ser_result,       \* Optional: the outcome of from_dict(ser_dict)
    \* ---- _sort_by_relevance (RankSpec) ----
    rank_recipes,     \* the list of result dicts passed in
    rank_query,       \* the query string passed in
    rank_result,      \* Optional: the outcome of the call
    \* ---- _format_recipes / _format_single_recipe (NormSpec) ----
    norm_raw,         \* the provider's JSON for one recipe
    norm_batch,       \* the provider's list of results, holding norm_raw
    norm_summary,     \* Optional: the outcome of _format_recipes([norm_raw])
    norm_detail,      \* Optional: the outcome of _format_single_recipe(norm_raw)
    \* ---- handle_call_tool, the tools and SpoonacularService (ToolSpec) ----
    tool_env,         \* Optional[str]: os.getenv("SPOONACULAR_API_KEY")
    tool_calls,       \* call -> where the call is and what it holds
    tool_sessions,    \* call -> the aiohttp.ClientSessions its service created
    tool_requests     \* call -> the requests its service issued, in order

scale_vars == <<original, scaled, err, called, list_heap, ingredient_heap,
                inglist_heap, nutrition_heap, clock, before, touched>>

serial_vars == <<ser_kind, ser_subject, ser_dict, ser_result>>

rank_vars == <<rank_recipes, rank_query, rank_result>>

norm_vars == <<norm_raw, norm_batch, norm_summary, norm_detail>>

tool_vars == <<tool_env, tool_calls, tool_sessions, tool_requests>>

vars == <<scale_vars, serial_vars, rank_vars, norm_vars, tool_vars>>

not_scale_vars == <<serial_vars, rank_vars, norm_vars, tool_vars>>
not_serial_vars == <<scale_vars, rank_vars, norm_vars, tool_vars>>
not_rank_vars == <<scale_vars, serial_vars, norm_vars, tool_vars>>
not_norm_vars == <<scale_vars, serial_vars, rank_vars, tool_vars>>
not_tool_vars == <<scale_vars, serial_vars, rank_vars, norm_vars>>

(***************************************************************************)
(* Bounds of the model.                                                    *)
(***************************************************************************)
MaxServings == 3
MaxMutations == 2

(***************************************************************************)
(* Python values.                                                          *)
(***************************************************************************)
None == <<>>
Some(v) == <<v>>
IsNone(o) == o = <<>>
Get(o) == o[1]

Truthy(o) == o # <<>>

Abs(i) == IF i < 0 THEN -i ELSE i

RECURSIVE Gcd(_, _)
Gcd(a, b) == IF b = 0 THEN a ELSE Gcd(b, a % b)

\* A float as an exact fraction in lowest terms, den > 0.
Rat(n, d) ==
    LET g == Gcd(Abs(n), Abs(d))
        s == IF d < 0 THEN -1 ELSE 1
    IN  [num |-> (s * n) \div g, den |-> (s * d) \div g]

RatMul(a, b) == Rat(a.num * b.num, a.den * b.den)

\* str(i) for the integers the model uses.
Digit(d) == CASE d = 0 -> "0" [] d = 1 -> "1" [] d = 2 -> "2" [] d = 3 -> "3"
              [] d = 4 -> "4" [] d = 5 -> "5" [] d = 6 -> "6" [] d = 7 -> "7"
              [] d = 8 -> "8" [] d = 9 -> "9"

RECURSIVE NatToStr(_)
NatToStr(i) == IF i < 10 THEN <<Digit(i)>>
               ELSE NatToStr(i \div 10) \o <<Digit(i % 10)>>

IntToStr(i) == IF i < 0 THEN <<"-">> \o NatToStr(-i) ELSE NatToStr(i)

(***************************************************************************)
(* Text used by the model: each Python str as its sequence of characters.  *)
(***************************************************************************)
Str ==
    [ empty |-> <<>>,
      x |-> <<"x">>,
      T |-> <<"T">>,
      flour |-> <<"f", "l", "o", "u", "r">>,
      sugar |-> <<"s", "u", "g", "a", "r">>,
      cups |-> <<"c", "u", "p", "s">>,
      cup |-> <<"c", "u", "p">>,
      sifted |-> <<"s", "i", "f", "t", "e", "d">>,
      vegan |-> <<"v", "e", "g", "a", "n">>,
      mix |-> <<"m", "i", "x">>,
      bowl |-> <<"b", "o", "w", "l">>,
      new |-> <<"n", "e", "w">>,
      intermediate |-> <<"i", "n", "t", "e", "r", "m", "e", "d", "i", "a",
                         "t", "e">>,
      unknown |-> <<"u", "n", "k", "n", "o", "w", "n">>,
      scaled_infix |-> <<"_", "s", "c", "a", "l", "e", "d", "_">>,
      serves_prefix |-> <<" ", "(", "s", "e", "r", "v", "e", "s", " ">>,
      close |-> <<")">>,
      None |-> <<"N", "o", "n", "e">>,
      spoonacular |-> <<"s", "p", "o", "o", "n", "a", "c", "u", "l", "a", "r">> ]

(***************************************************************************)
(* shared/types/recipe.py: the dataclasses.                                *)
(***************************************************************************)
NutritionFields == {"calories_per_serving", "protein_grams", "carbs_grams",
                    "fat_grams", "fiber_grams", "sugar_grams"}

\* NutritionInfo(**kw): every field not given is None.
NutritionInfo(kw) ==
    [f \in NutritionFields |-> IF f \in DOMAIN kw THEN kw[f] ELSE None]

Ingredient(name, amount, unit, notes) ==
    [name |-> name, amount |-> amount, unit |-> unit, notes |-> notes]

\* The three list[str] fields of a Recipe.
ListFields == {"dietary_tags", "instructions", "equipment_required"}

(***************************************************************************)
(* Recipe.scale_recipe                                                     *)
(***************************************************************************)
\* Mutant: the guard lets zero servings through.
InvalidServings_NegativeOnly(servings) == servings < 0

\* if self.servings <= 0: raise ValueError
InvalidServings(servings) == servings <= 0

\* Mutant: the factor is inverted.
ScaleFactor_Inverted(new_servings, servings) == Rat(servings, new_servings)

\* scale_factor = new_servings / self.servings
ScaleFactor(new_servings, servings) == Rat(new_servings, servings)

\* Mutant: notes are not carried over.
ScaledIngredient_NoNotes(ingredient, scale_factor) ==
    Ingredient(ingredient.name,
               RatMul(ingredient.amount, scale_factor),
               ingredient.unit,
               None)

\* Ingredient(name=..., amount=ingredient.amount * scale_factor, unit=..., notes=...)
ScaledIngredient(ingredient, scale_factor) ==
    Ingredient(ingredient.name,
               RatMul(ingredient.amount, scale_factor),
               ingredient.unit,
               ingredient.notes)

\* f"{self.id}_scaled_{new_servings}"
ScaledId(id, new_servings) == id \o Str.scaled_infix \o IntToStr(new_servings)

\* Mutant: the title is carried over as it is.
ScaledTitle_Unchanged(title, new_servings) == title

\* f"{self.title} (serves {new_servings})"
ScaledTitle(title, new_servings) ==
    title \o Str.serves_prefix \o IntToStr(new_servings) \o Str.close

\* The fields of the returned Recipe that are plain values: everything but the
\* four lists, which the caller of ScaledScalars places in the heaps.
ScaledScalars(self, new_servings, nutrition_ref, created, updated) ==
    [id |-> ScaledId(self.id, new_servings),
     title |-> ScaledTitle(self.title, new_servings),
     description |-> self.description,
     cuisine_type |-> self.cuisine_type,
     prep_time_minutes |-> self.prep_time_minutes,
     cook_time_minutes |-> self.cook_time_minutes,
     total_time_minutes |-> self.total_time_minutes,
     servings |-> new_servings,
     difficulty_level |-> self.difficulty_level,
     nutrition |-> nutrition_ref,
     image_url |-> self.image_url,
     source_url |-> self.source_url,
     source |-> self.source,
     created_at |-> created,
     updated_at |-> updated]

\* nutrition=self.nutrition: the reference itself is passed on.
ScaledNutritionRef(self) == self.nutrition

\* A Recipe object: its plain fields and the addresses of its four lists.
RecipeObject(scalars, tags, ings, instrs, equip) ==
    [f \in DOMAIN scalars \cup ListFields \cup {"ingredients"} |->
        CASE f = "dietary_tags" -> tags
          [] f = "ingredients" -> ings
          [] f = "instructions" -> instrs
          [] f = "equipment_required" -> equip
          [] OTHER -> scalars[f]]

\* The value of a Recipe as dataclass equality sees it: references followed.
ValueIn(r, lists, ingredients, inglists, nutritions) ==
    [f \in DOMAIN r |->
        CASE f \in ListFields -> lists[r[f]]
          [] f = "ingredients" ->
                [i \in 1..Len(inglists[r[f]]) |-> ingredients[inglists[r[f]][i]]]
          [] f = "nutrition" ->
                IF IsNone(r[f]) THEN None ELSE Some(nutritions[Get(r[f])])
          [] OTHER -> r[f]]

Value(r) == ValueIn(r, list_heap, ingredient_heap, inglist_heap, nutrition_heap)

(***************************************************************************)
(* The recipes scale_recipe is called on (Init of Spec).                   *)
(***************************************************************************)
InitIngredientLists ==
    { <<>>,
      <<Ingredient(Str.flour, Rat(2, 1), Str.cups, None)>>,
      <<Ingredient(Str.flour, Rat(2, 1), Str.cups, None),
        Ingredient(Str.sugar, Rat(1, 2), Str.cup, Some(Str.sifted))>> }

InitNutritions ==
    { None,
      Some(NutritionInfo([calories_per_serving |-> Some(Rat(150, 1))])) }

InitTags == { <<>>, <<Str.vegan>> }

InitScale ==
    \E servings \in -1..MaxServings, ings \in InitIngredientLists,
       nutr \in InitNutritions, tags \in InitTags, prep \in {0, 15} :
        /\ list_heap = <<tags, <<Str.mix>>, <<Str.bowl>>>>
        /\ ingredient_heap = ings
        /\ inglist_heap = <<[i \in 1..Len(ings) |-> i]>>
        /\ nutrition_heap = IF IsNone(nutr) THEN <<>> ELSE <<Get(nutr)>>
        /\ original = RecipeObject(
                [id |-> Str.x, title |-> Str.T, description |-> Str.empty,
                 cuisine_type |-> None,
                 prep_time_minutes |-> prep, cook_time_minutes |-> 30,
                 total_time_minutes |-> prep + 30,
                 servings |-> servings,
                 difficulty_level |-> Str.intermediate,
                 nutrition |-> IF IsNone(nutr) THEN None ELSE Some(1),
                 image_url |-> None, source_url |-> None,
                 source |-> Str.unknown,
                 created_at |-> 0, updated_at |-> 0],
                1, 1, 2, 3)
        /\ scaled = None
        /\ err = "none"
        /\ called = None
        /\ clock = 0
        /\ before = None
        /\ touched = [original |-> 0, scaled |-> 0]

\* The variables of the other specifications, at rest.
SerialIdle ==
    /\ ser_kind = "none"
    /\ ser_subject = None
    /\ ser_dict = None
    /\ ser_result = None

RankIdle ==
    /\ rank_recipes = <<>>
    /\ rank_query = <<>>
    /\ rank_result = None

NormIdle ==
    /\ norm_raw = None
    /\ norm_batch = <<>>
    /\ norm_summary = None
    /\ norm_detail = None

ToolIdle ==
    /\ tool_env = None
    /\ tool_calls = <<>>
    /\ tool_sessions = <<>>
    /\ tool_requests = <<>>

(***************************************************************************)
(* scale_recipe(new_servings), the whole call.                             *)
(***************************************************************************)
scale_recipe(new_servings) ==
    /\ IsNone(called)
    /\ called' = Some(new_servings)
    /\ UNCHANGED not_scale_vars
    /\ IF InvalidServings(original.servings)
       THEN /\ err' = "ValueError"
            /\ scaled' = None
            /\ before' = Some([original |-> Value(original)])
            /\ UNCHANGED <<original, list_heap, ingredient_heap, inglist_heap,
                           nutrition_heap, clock, touched>>
       ELSE IF original.servings = 0
       THEN \* new_servings / 0
            /\ err' = "ZeroDivisionError"
            /\ scaled' = None
            /\ before' = Some([original |-> Value(original)])
            /\ UNCHANGED <<original, list_heap, ingredient_heap, inglist_heap,
                           nutrition_heap, clock, touched>>
       ELSE \E tick \in 0..1 :
            LET scale_factor == ScaleFactor(new_servings, original.servings)
                old == inglist_heap[original.ingredients]
                scaled_ingredients ==
                    [i \in 1..Len(old) |->
                        ScaledIngredient(ingredient_heap[old[i]], scale_factor)]
                base == Len(ingredient_heap)
                lbase == Len(list_heap)
                created == clock + 1
                updated == created + tick
                new == RecipeObject(
                          ScaledScalars(original, new_servings,
                                        ScaledNutritionRef(original),
                                        created, updated),
                          lbase + 1, Len(inglist_heap) + 1, lbase + 2, lbase + 3)
                lists == list_heap \o
                          << list_heap[original.dietary_tags],
                             list_heap[original.instructions],
                             list_heap[original.equipment_required] >>
                ingobjs == ingredient_heap \o scaled_ingredients
                inglists == Append(inglist_heap,
                                   [i \in 1..Len(old) |-> base + i])
            IN  /\ err' = "none"
                /\ scaled' = Some(new)
                /\ list_heap' = lists
                /\ ingredient_heap' = ingobjs
                /\ inglist_heap' = inglists
                /\ clock' = updated
                /\ before' = Some(
                      [original |-> Value(original),
                       scaled |-> ValueIn(new, lists, ingobjs, inglists,
                                          nutrition_heap)])
                /\ UNCHANGED <<original, nutrition_heap, touched>>

ScaleCall == \E new_servings \in -1..MaxServings : scale_recipe(new_servings)

(***************************************************************************)
(* In-place changes a holder of a Recipe can make to it.                   *)
(***************************************************************************)
Targets == {"original", "scaled"}

Target(t) == IF t = "original" THEN original ELSE Get(scaled)

CanTouch(t) ==
    /\ ~IsNone(scaled)
    /\ touched.original + touched.scaled < MaxMutations

Touch(t) == touched' = [touched EXCEPT ![t] = @ + 1]

\* recipe.ingredients[i].amount = 9.0
SetIngredientAmount ==
    \E t \in Targets :
        /\ CanTouch(t)
        /\ \E i \in 1..Len(inglist_heap[Target(t).ingredients]) :
             ingredient_heap' =
                [ingredient_heap EXCEPT
                    ![inglist_heap[Target(t).ingredients][i]].amount = Rat(9, 1)]
        /\ Touch(t)
        /\ UNCHANGED not_scale_vars
        /\ UNCHANGED <<original, scaled, err, called, list_heap, inglist_heap,
                       nutrition_heap, clock, before>>

\* recipe.ingredients.pop()
PopIngredient ==
    \E t \in Targets :
        /\ CanTouch(t)
        /\ Len(inglist_heap[Target(t).ingredients]) > 0
        /\ inglist_heap' =
              [inglist_heap EXCEPT ![Target(t).ingredients] =
                  SubSeq(@, 1, Len(@) - 1)]
        /\ Touch(t)
        /\ UNCHANGED not_scale_vars
        /\ UNCHANGED <<original, scaled, err, called, list_heap,
                       ingredient_heap, nutrition_heap, clock, before>>

\* recipe.dietary_tags.append("new"), likewise instructions, equipment_required
AppendToList ==
    \E t \in Targets, f \in ListFields :
        /\ CanTouch(t)
        /\ list_heap' = [list_heap EXCEPT ![Target(t)[f]] = Append(@, Str.new)]
        /\ Touch(t)
        /\ UNCHANGED not_scale_vars
        /\ UNCHANGED <<original, scaled, err, called, ingredient_heap,
                       inglist_heap, nutrition_heap, clock, before>>

\* recipe.nutrition.calories_per_serving = 7.0, likewise the other fields
SetNutritionField ==
    \E t \in Targets, f \in {"calories_per_serving", "fat_grams"} :
        /\ CanTouch(t)
        /\ ~IsNone(Target(t).nutrition)
        /\ nutrition_heap' =
              [nutrition_heap EXCEPT ![Get(Target(t).nutrition)][f] =
                  Some(Rat(7, 1))]
        /\ Touch(t)
        /\ UNCHANGED not_scale_vars
        /\ UNCHANGED <<original, scaled, err, called, list_heap,
                       ingredient_heap, inglist_heap, clock, before>>

Next ==
    \/ ScaleCall
    \/ SetIngredientAmount
    \/ PopIngredient
    \/ AppendToList
    \/ SetNutritionField

Init == InitScale /\ SerialIdle /\ RankIdle /\ NormIdle /\ ToolIdle

Spec == Init /\ [][Next]_vars

(***************************************************************************)
(* Claims about scale_recipe, checked under Spec.                          *)
(***************************************************************************)
Untouched == touched.original = 0 /\ touched.scaled = 0

\* C1: for servings > 0 and a positive new_servings, the returned recipe has
\* the same ingredients in the same order, each amount being the original
\* amount times new_servings / servings, and its servings is new_servings.
\* The amounts are compared by cross-multiplication of the fractions.
C1_ScaleAmounts ==
    (~IsNone(scaled) /\ Untouched) =>
        LET o == Get(before).original
            r == Value(Get(scaled))
            n == Get(called)
        IN  (o.servings > 0 /\ n > 0) =>
              /\ Len(r.ingredients) = Len(o.ingredients)
              /\ \A i \in 1..Len(o.ingredients) :
                    /\ r.ingredients[i].name = o.ingredients[i].name
                    /\ r.ingredients[i].amount.den > 0
                    /\ r.ingredients[i].amount.num
                          * (o.ingredients[i].amount.den * o.servings)
                       = o.ingredients[i].amount.num * n
                          * r.ingredients[i].amount.den
              /\ r.servings = n

\* C1 witness: 2 servings scaled to 3; the half cup of sugar became 3/4.
C1_Witness ==
    /\ ~IsNone(scaled)
    /\ Untouched
    /\ Get(before).original.servings = 2
    /\ Get(called) = 3
    /\ Len(Value(Get(scaled)).ingredients) = 2
    /\ Value(Get(scaled)).ingredients[2].amount = [num |-> 3, den |-> 4]

\* C2: with servings <= 0 the call raises ValueError whatever new_servings is,
\* returns no recipe and leaves the recipe it was called on as it was.
C2_InvalidScale ==
    (~IsNone(called) /\ Get(before).original.servings <= 0) =>
        /\ err = "ValueError"
        /\ IsNone(scaled)
        /\ Value(original) = Get(before).original

\* C2 witness: Recipe(servings=0).scale_recipe(3) raised.
C2_Witness ==
    /\ called = Some(3)
    /\ original.servings = 0
    /\ err = "ValueError"

\* C3: the returned recipe shares no mutable part with the original: in-place
\* changes to one of them leave the value of the other as it was.
C3_NoSharedParts ==
    ~IsNone(scaled) =>
        /\ touched.original = 0 => Value(original) = Get(before).original
        /\ touched.scaled = 0 => Value(Get(scaled)) = Get(before).scaled

\* C4: nothing but the ingredient amounts is rescaled: the time fields and
\* the nutrition are those of the original, and each ingredient keeps its
\* name, unit and notes.
C4_OnlyAmountsScaled ==
    (~IsNone(scaled) /\ Untouched) =>
        LET o == Get(before).original
            r == Value(Get(scaled))
        IN  /\ r.prep_time_minutes = o.prep_time_minutes
            /\ r.cook_time_minutes = o.cook_time_minutes
            /\ r.total_time_minutes = o.total_time_minutes
            /\ r.nutrition = o.nutrition
            /\ Len(r.ingredients) = Len(o.ingredients)
            /\ \A i \in 1..Len(o.ingredients) :
                  /\ r.ingredients[i].name = o.ingredients[i].name
                  /\ r.ingredients[i].unit = o.ingredients[i].unit
                  /\ r.ingredients[i].notes = o.ingredients[i].notes

\* C4 witness: a recipe with times, nutrition and a noted ingredient was
\* scaled by a factor other than one.
C4_Witness ==
    /\ ~IsNone(scaled)
    /\ Untouched
    /\ Get(before).original.servings = 1
    /\ Get(called) = 3
    /\ Get(before).original.prep_time_minutes = 15
    /\ ~IsNone(Value(Get(scaled)).nutrition)
    /\ Len(Value(Get(scaled)).ingredients) = 2
    /\ Value(Get(scaled)).ingredients[2].notes = Some(Str.sifted)

(***************************************************************************)
(* to_dict / from_dict (shared/types/recipe.py).                           *)
(*                                                                         *)
(* A dict is a function from its keys.  A call that can raise returns      *)
(* [raised |-> the exception's class or "none", value |-> the result].     *)
(***************************************************************************)
Ok(v) == [raised |-> "none", value |-> v]
Raise(e) == [raised |-> e, value |-> None]

\* data.get(key, default)
DictGet(data, key, default) == IF key \in DOMAIN data THEN data[key] ELSE default

\* A datetime: seconds since some epoch and the microsecond within the second.
DateTime(second, microsecond) == [second |-> second, microsecond |-> microsecond]

DigitChars == {"0", "1", "2", "3", "4", "5", "6", "7", "8", "9"}

DigitVal(c) == CASE c = "0" -> 0 [] c = "1" -> 1 [] c = "2" -> 2 [] c = "3" -> 3
                 [] c = "4" -> 4 [] c = "5" -> 5 [] c = "6" -> 6 [] c = "7" -> 7
                 [] c = "8" -> 8 [] c = "9" -> 9

RECURSIVE StrToNat(_)
StrToNat(text) ==
    IF Len(text) = 0 THEN 0
    ELSE 10 * StrToNat(SubSeq(text, 1, Len(text) - 1)) + DigitVal(text[Len(text)])

AllDigits(text) == Len(text) > 0 /\ \A i \in 1..Len(text) : text[i] \in DigitChars

\* The six digits of "%06d" % microsecond.
Pad6(microsecond) ==
    LET d == NatToStr(microsecond)
    IN  [i \in 1..(6 - Len(d)) |-> "0"] \o d

\* datetime.isoformat(): the date and time to the second (here the count of
\* seconds in decimal), then "." and six digits unless microsecond is 0.
IsoFormat(dt) ==
    IF dt.microsecond = 0 THEN NatToStr(dt.second)
    ELSE NatToStr(dt.second) \o <<".">> \o Pad6(dt.microsecond)

\* datetime.fromisoformat(text): ValueError unless text is a date-time to the
\* second, optionally followed by "." and three or six digits.
FromIsoFormat(text) ==
    LET dots == {i \in 1..Len(text) : text[i] = "."}
    IN  IF dots = {}
        THEN IF AllDigits(text) THEN Ok(DateTime(StrToNat(text), 0))
             ELSE Raise("ValueError")
        ELSE LET dot == CHOOSE i \in dots : \A j \in dots : i <= j
                 whole == SubSeq(text, 1, dot - 1)
                 frac == SubSeq(text, dot + 1, Len(text))
             IN  IF AllDigits(whole) /\ AllDigits(frac) /\ Len(frac) \in {3, 6}
                 THEN Ok(DateTime(StrToNat(whole),
                                  IF Len(frac) = 3 THEN 1000 * StrToNat(frac)
                                  ELSE StrToNat(frac)))
                 ELSE Raise("ValueError")

\* Ingredient.to_dict
Ingredient_to_dict(self) ==
    [name |-> self.name, amount |-> self.amount, unit |-> self.unit,
     notes |-> self.notes]

\* Mutant: notes are read under the wrong key.
Ingredient_from_dict_LosesNotes(data) ==
    IF {"name", "amount", "unit"} \subseteq DOMAIN data
    THEN Ok(Ingredient(data.name, data.amount, data.unit,
                       DictGet(data, "note", None)))
    ELSE Raise("KeyError")

\* Mutant: unit is read with a default.
Ingredient_from_dict_UnitOptional(data) ==
    IF {"name", "amount"} \subseteq DOMAIN data
    THEN Ok(Ingredient(data.name, data.amount, DictGet(data, "unit", Str.empty),
                       DictGet(data, "notes", None)))
    ELSE Raise("KeyError")

\* Ingredient.from_dict: data["name"], data["amount"], data["unit"] raise
\* KeyError when absent; data.get("notes").
Ingredient_from_dict(data) ==
    IF {"name", "amount", "unit"} \subseteq DOMAIN data
    THEN Ok(Ingredient(data.name, data.amount, data.unit,
                       DictGet(data, "notes", None)))
    ELSE Raise("KeyError")

\* NutritionInfo.to_dict: all six keys, None for an unset field.
NutritionInfo_to_dict(self) == [f \in NutritionFields |-> self[f]]

\* The timestamp fields of a Recipe value.
TimeFields == {"created_at", "updated_at"}

\* Recipe.to_dict
Recipe_to_dict(self) ==
    [k \in DOMAIN self |->
        CASE k = "ingredients" ->
                [i \in 1..Len(self.ingredients) |->
                    Ingredient_to_dict(self.ingredients[i])]
          [] k = "nutrition" ->
                IF ~IsNone(self.nutrition)
                THEN NutritionInfo_to_dict(Get(self.nutrition)) ELSE None
          [] k \in TimeFields -> IsoFormat(self[k])
          [] OTHER -> self[k]]

\* if data.get("nutrition"): nutrition = NutritionInfo(**data["nutrition"])
\* (an empty dict is as false as None; an unexpected key is a TypeError).
Recipe_nutrition_from(data) ==
    LET raw == DictGet(data, "nutrition", None)
    IN  IF ~Truthy(raw) THEN Ok(None)
        ELSE IF DOMAIN raw \subseteq NutritionFields
        THEN Ok(Some(NutritionInfo(raw)))
        ELSE Raise("TypeError")

\* Recipe.from_dict; now is what datetime.now() returns during the call.
Recipe_from_dict(data, now) ==
    LET raw_ings == DictGet(data, "ingredients", <<>>)
        ings == [i \in 1..Len(raw_ings) |-> Ingredient_from_dict(raw_ings[i])]
        nutrition == Recipe_nutrition_from(data)
        created == FromIsoFormat(DictGet(data, "created_at", IsoFormat(now)))
        updated == FromIsoFormat(DictGet(data, "updated_at", IsoFormat(now)))
    IN  IF \E i \in 1..Len(ings) : ings[i].raised # "none"
        THEN Raise("KeyError")
        ELSE IF nutrition.raised # "none" THEN Raise(nutrition.raised)
        ELSE IF ~({"id", "title"} \subseteq DOMAIN data) THEN Raise("KeyError")
        ELSE IF created.raised # "none" THEN Raise(created.raised)
        ELSE IF updated.raised # "none" THEN Raise(updated.raised)
        ELSE Ok([id |-> data.id,
                 title |-> data.title,
                 description |-> DictGet(data, "description", Str.empty),
                 cuisine_type |-> DictGet(data, "cuisine_type", None),
                 dietary_tags |-> DictGet(data, "dietary_tags", <<>>),
                 prep_time_minutes |-> DictGet(data, "prep_time_minutes", 0),
                 cook_time_minutes |-> DictGet(data, "cook_time_minutes", 0),
                 total_time_minutes |-> DictGet(data, "total_time_minutes", 0),
                 servings |-> DictGet(data, "servings", 1),
                 difficulty_level |->
                     DictGet(data, "difficulty_level", Str.intermediate),
                 ingredients |-> [i \in 1..Len(ings) |-> ings[i].value],
                 instructions |-> DictGet(data, "instructions", <<>>),
                 nutrition |-> nutrition.value,
                 equipment_required |->
                     DictGet(data, "equipment_required", <<>>),
                 image_url |-> DictGet(data, "image_url", None),
                 source_url |-> DictGet(data, "source_url", None),
                 source |-> DictGet(data, "source", Str.unknown),
                 created_at |-> created.value,
                 updated_at |-> updated.value])

(***************************************************************************)
(* SerialSpec: an Ingredient or a Recipe is serialised with to_dict and    *)
(* the dict is read back with from_dict.                                   *)
(***************************************************************************)
SerIngredients ==
    { Ingredient(Str.flour, Rat(2, 1), Str.cups, None),
      Ingredient(Str.sugar, Rat(1, 2), Str.cup, Some(Str.sifted)),
      Ingredient(Str.empty, Rat(0, 1), Str.empty, Some(Str.empty)) }

SerNutritions ==
    { None,
      Some(NutritionInfo(<<>>)),
      Some(NutritionInfo([calories_per_serving |-> Some(Rat(150, 1)),
                          fat_grams |-> Some(Rat(0, 1))])) }

SerDateTimes == { DateTime(0, 0), DateTime(12, 5), DateTime(12, 500000) }

SerRecipes ==
    { [id |-> Str.x, title |-> Str.T, description |-> description,
       cuisine_type |-> cuisine,
       dietary_tags |-> tags,
       prep_time_minutes |-> 15, cook_time_minutes |-> 30,
       total_time_minutes |-> 45,
       servings |-> servings,
       difficulty_level |-> Str.intermediate,
       ingredients |-> ings,
       instructions |-> <<Str.mix>>,
       nutrition |-> nutr,
       equipment_required |-> <<>>,
       image_url |-> None, source_url |-> Some(Str.x),
       source |-> Str.unknown,
       created_at |-> created, updated_at |-> updated] :
      description \in {Str.empty, Str.mix}, cuisine \in {None, Some(Str.vegan)},
      tags \in InitTags, servings \in {0, MaxServings},
      ings \in InitIngredientLists, nutr \in SerNutritions,
      created \in SerDateTimes, updated \in SerDateTimes }

\* The variables of Spec, at rest.
ScaleIdle ==
    /\ original = None
    /\ scaled = None
    /\ err = "none"
    /\ called = None
    /\ list_heap = <<>>
    /\ ingredient_heap = <<>>
    /\ inglist_heap = <<>>
    /\ nutrition_heap = <<>>
    /\ clock = 0
    /\ before = None
    /\ touched = [original |-> 0, scaled |-> 0]

InitSerial ==
    /\ \/ ser_kind = "ingredient" /\ ser_subject \in SerIngredients
       \/ ser_kind = "recipe" /\ ser_subject \in SerRecipes
    /\ ser_dict = None
    /\ ser_result = None

IngredientToDict ==
    /\ ser_kind = "ingredient"
    /\ IsNone(ser_dict)
    /\ ser_dict' = Some(Ingredient_to_dict(ser_subject))
    /\ UNCHANGED <<ser_kind, ser_subject, ser_result>>
    /\ UNCHANGED not_serial_vars

IngredientFromDict ==
    /\ ser_kind = "ingredient"
    /\ ~IsNone(ser_dict)
    /\ IsNone(ser_result)
    /\ ser_result' = Some(Ingredient_from_dict(Get(ser_dict)))
    /\ UNCHANGED <<ser_kind, ser_subject, ser_dict>>
    /\ UNCHANGED not_serial_vars

RecipeToDict ==
    /\ ser_kind = "recipe"
    /\ IsNone(ser_dict)
    /\ ser_dict' = Some(Recipe_to_dict(ser_subject))
    /\ UNCHANGED <<ser_kind, ser_subject, ser_result>>
    /\ UNCHANGED not_serial_vars

RecipeFromDict ==
    /\ ser_kind = "recipe"
    /\ ~IsNone(ser_dict)
    /\ IsNone(ser_result)
    /\ \E now \in SerDateTimes :
          ser_result' = Some(Recipe_from_dict(Get(ser_dict), now))
    /\ UNCHANGED <<ser_kind, ser_subject, ser_dict>>
    /\ UNCHANGED not_serial_vars

SerialNext ==
    \/ IngredientToDict
    \/ IngredientFromDict
    \/ RecipeToDict
    \/ RecipeFromDict

SerialInit == InitSerial /\ ScaleIdle /\ RankIdle /\ NormIdle /\ ToolIdle

SerialSpec == SerialInit /\ [][SerialNext]_vars

\* C5: from_dict(to_dict(x)) equals x for every Ingredient x, and for every
\* Recipe in every field, the two timestamps having the same textual form.
C5_RoundTrip ==
    ~IsNone(ser_result) =>
        LET back == Get(ser_result)
        IN  /\ back.raised = "none"
            /\ IF ser_kind = "ingredient"
               THEN back.value = ser_subject
               ELSE /\ DOMAIN back.value = DOMAIN ser_subject
                    /\ \A k \in DOMAIN ser_subject \ TimeFields :
                          back.value[k] = ser_subject[k]
                    /\ \A k \in TimeFields :
                          IsoFormat(back.value[k]) = IsoFormat(ser_subject[k])

\* C5 witness: a recipe with two ingredients, a NutritionInfo whose fields are
\* all unset and a timestamp with microseconds came back from from_dict.
C5_Witness ==
    /\ ser_kind = "recipe"
    /\ ~IsNone(ser_result)
    /\ Get(ser_result).raised = "none"
    /\ Len(ser_subject.ingredients) = 2
    /\ ser_subject.nutrition = Some(NutritionInfo(<<>>))
    /\ ser_subject.created_at = DateTime(12, 5)
    /\ Get(ser_dict).created_at = <<"1", "2", ".", "0", "0", "0", "0", "0", "5">>

\* C5 witness for the Ingredient half: an Ingredient with notes came back.
C5_WitnessIngredient ==
    /\ ser_kind = "ingredient"
    /\ ~IsNone(ser_result)
    /\ ~IsNone(ser_subject.notes)

(***************************************************************************)
(* JSON-like values whose Python type is not fixed by the code: a pair of  *)
(* a tag and the value (the tag alone for None).                           *)
(***************************************************************************)
JNull == <<"null">>
JStr(text) == <<"str", text>>
JNum(n) == <<"num", n>>
JList(items) == <<"list", items>>
JDict(d) == <<"dict", d>>

\* The tag of a JSON value and, unless it is JNull, what it holds.
TypeOf(value) == value[1]
Held(value) == value[2]

(***************************************************************************)
(* str.lower() and str.split()                                             *)
(***************************************************************************)
UpperCase == <<"A", "B", "C", "D", "E", "F", "G", "H", "I", "J", "K", "L", "M",
               "N", "O", "P", "Q", "R", "S", "T", "U", "V", "W", "X", "Y", "Z">>
LowerCase == <<"a", "b", "c", "d", "e", "f", "g", "h", "i", "j", "k", "l", "m",
               "n", "o", "p", "q", "r", "s", "t", "u", "v", "w", "x", "y", "z">>

LowerChar(c) ==
    IF \E i \in 1..Len(UpperCase) : UpperCase[i] = c
    THEN LowerCase[CHOOSE i \in 1..Len(UpperCase) : UpperCase[i] = c]
    ELSE c

\* text.lower()
Lower(text) == [i \in 1..Len(text) |-> LowerChar(text[i])]

Whitespace == {" ", "\t", "\n"}

\* The index of the last character of the word that starts at index i.
RECURSIVE WordEnd(_, _)
WordEnd(text, i) ==
    IF i = Len(text) \/ text[i + 1] \in Whitespace THEN i
    ELSE WordEnd(text, i + 1)

\* set(text.split()): the maximal runs of non-whitespace characters.
SplitSet(text) ==
    { SubSeq(text, i, WordEnd(text, i)) :
        i \in { k \in 1..Len(text) :
                  /\ text[k] \notin Whitespace
                  /\ (k = 1 \/ text[k - 1] \in Whitespace) } }

(***************************************************************************)
(* tools/search_recipes.py: _sort_by_relevance                             *)
(***************************************************************************)
\* query_words = set(query.lower().split())
QueryWords(query) == SplitSet(Lower(query))

\* set(recipe.get(key, "").lower().split()); a value that is not a str has
\* no lower().
FieldWords(recipe, key) ==
    LET value == DictGet(recipe, key, JStr(Str.empty))
    IN  IF TypeOf(value) = "str" THEN Ok(SplitSet(Lower(Held(value))))
        ELSE Raise("AttributeError")

\* Mutant: a title match weighs no more than a description match.
relevance_score_Unweighted(recipe, query_words) ==
    LET title_words == FieldWords(recipe, "title")
        description_words == FieldWords(recipe, "description")
    IN  IF title_words.raised # "none" THEN Raise(title_words.raised)
        ELSE IF description_words.raised # "none"
        THEN Raise(description_words.raised)
        ELSE Ok(Cardinality(query_words \cap title_words.value)
                + Cardinality(query_words \cap description_words.value))

\* relevance_score(recipe)
relevance_score(recipe, query_words) ==
    LET title_words == FieldWords(recipe, "title")
        description_words == FieldWords(recipe, "description")
    IN  IF title_words.raised # "none" THEN Raise(title_words.raised)
        ELSE IF description_words.raised # "none"
        THEN Raise(description_words.raised)
        ELSE Ok(Cardinality(query_words \cap title_words.value) * 2
                + Cardinality(query_words \cap description_words.value))

\* Mutant: an ascending stable sort read backwards, which reverses ties.
SortedReverse_TiesReversed(items, keys) ==
    LET n == Len(items)
        Pos(i) == 1 + Cardinality({ j \in 1..n :
                        \/ keys[j] > keys[i]
                        \/ keys[j] = keys[i] /\ j > i })
    IN  [p \in 1..n |-> items[CHOOSE i \in 1..n : Pos(i) = p]]

\* sorted(items, key=..., reverse=True) given the keys: descending, and
\* stable, so items with equal keys keep their order.
SortedReverse(items, keys) ==
    LET n == Len(items)
        Pos(i) == 1 + Cardinality({ j \in 1..n :
                        \/ keys[j] > keys[i]
                        \/ keys[j] = keys[i] /\ j < i })
    IN  [p \in 1..n |-> items[CHOOSE i \in 1..n : Pos(i) = p]]

\* _sort_by_relevance(recipes, query)
sort_by_relevance(recipes, query) ==
    LET query_words == QueryWords(query)
        scores == [i \in 1..Len(recipes) |->
                      relevance_score(recipes[i], query_words)]
    IN  IF \E i \in 1..Len(recipes) : scores[i].raised # "none"
        THEN Raise("AttributeError")
        ELSE Ok(SortedReverse(recipes,
                              [i \in 1..Len(recipes) |-> scores[i].value]))

(***************************************************************************)
(* RankSpec: _sort_by_relevance is called on a list of result dicts.       *)
(***************************************************************************)
MaxResults == 3

\* Titles and descriptions of results: those of test_sort_by_relevance, and
\* two that differ from a query word by case or repeat it.
Title ==
    [ BeefStroganoff |-> <<"B", "e", "e", "f", " ", "S", "t", "r", "o", "g",
                           "a", "n", "o", "f", "f">>,
      CreamyBeefDish |-> <<"C", "r", "e", "a", "m", "y", " ", "b", "e", "e",
                           "f", " ", "d", "i", "s", "h">>,
      ChickenParmesan |-> <<"C", "h", "i", "c", "k", "e", "n", " ", "P", "a",
                            "r", "m", "e", "s", "a", "n">>,
      ItalianChicken |-> <<"I", "t", "a", "l", "i", "a", "n", " ", "c", "h",
                           "i", "c", "k", "e", "n", " ", "w", "i", "t", "h",
                           " ", "p", "a", "r", "m", "e", "s", "a", "n">>,
      ParmesanChickenSalad |-> <<"P", "a", "r", "m", "e", "s", "a", "n", " ",
                                 "C", "h", "i", "c", "k", "e", "n", " ", "S",
                                 "a", "l", "a", "d">>,
      FreshSalad |-> <<"F", "r", "e", "s", "h", " ", "s", "a", "l", "a", "d",
                       " ", "w", "i", "t", "h", " ", "c", "h", "i", "c", "k",
                       "e", "n">>,
      chicken |-> <<"c", "h", "i", "c", "k", "e", "n">>,
      CHICKEN_chicken |-> <<"C", "H", "I", "C", "K", "E", "N", " ", "c", "h",
                            "i", "c", "k", "e", "n">> ]

\* Queries: that of the test, one with a repeated word and a double space,
\* one of a single word, one with leading and trailing spaces.
Query ==
    [ chicken_parmesan |-> <<"c", "h", "i", "c", "k", "e", "n", " ", "p", "a",
                             "r", "m", "e", "s", "a", "n">>,
      Chicken_chicken |-> <<"C", "h", "i", "c", "k", "e", "n", " ", " ", "c",
                            "h", "i", "c", "k", "e", "n">>,
      beef |-> <<"b", "e", "e", "f">>,
      salad_dish |-> <<" ", "s", "a", "l", "a", "d", " ", "d", "i", "s", "h",
                       " ">> ]

\* Titles and descriptions of the results; the last two lack a key, and the
\* one before them has the null title _format_recipes gives a raw recipe
\* without "title".
RankPool ==
    { [title |-> JStr(Title.BeefStroganoff), description |-> JStr(Title.CreamyBeefDish)],
      [title |-> JStr(Title.ChickenParmesan), description |-> JStr(Title.ItalianChicken)],
      [title |-> JStr(Title.ParmesanChickenSalad),
       description |-> JStr(Title.FreshSalad)],
      [title |-> JNull, description |-> JStr(Title.chicken)],
      [description |-> JStr(Title.chicken)],
      [title |-> JStr(Title.CHICKEN_chicken)] }

RankQueries ==
    { Str.empty, Query.chicken_parmesan, Query.Chicken_chicken, Query.beef, Query.salad_dish }

\* The i-th result carries the id i, as str(recipe.get("id")) of distinct
\* provider ids does.
WithId(recipe, i) ==
    [k \in DOMAIN recipe \cup {"id"} |->
        IF k = "id" THEN JStr(IntToStr(i)) ELSE recipe[k]]

InitRank ==
    /\ \E n \in 0..MaxResults :
          \E picks \in [1..n -> RankPool] :
              rank_recipes = [i \in 1..n |-> WithId(picks[i], i)]
    /\ rank_query \in RankQueries
    /\ rank_result = None

SortByRelevance ==
    /\ IsNone(rank_result)
    /\ rank_result' = Some(sort_by_relevance(rank_recipes, rank_query))
    /\ UNCHANGED <<rank_recipes, rank_query>>
    /\ UNCHANGED not_rank_vars

RankNext == SortByRelevance

RankInit == InitRank /\ ScaleIdle /\ SerialIdle /\ NormIdle /\ ToolIdle

RankSpec == RankInit /\ [][RankNext]_vars

\* The results the claims about rank speak of: every title and description
\* is text or absent.
RankTextual ==
    \A i \in 1..Len(rank_recipes) : \A k \in {"title", "description"} :
        k \in DOMAIN rank_recipes[i] => TypeOf(rank_recipes[i][k]) = "str"

\* The score as the claims state it: 2 * |query tokens /\ title tokens|
\* + |query tokens /\ description tokens|, tokens being sets of lower-cased
\* whitespace-separated words.
ClaimedTokens(recipe, key) ==
    IF key \in DOMAIN recipe THEN SplitSet(Lower(Held(recipe[key]))) ELSE {}

ClaimedScore(recipe) ==
    2 * Cardinality(SplitSet(Lower(rank_query)) \cap ClaimedTokens(recipe, "title"))
    + Cardinality(SplitSet(Lower(rank_query))
                  \cap ClaimedTokens(recipe, "description"))

\* Where the result with this id stood in the input.
InputIndex(recipe) == CHOOSE i \in 1..Len(rank_recipes) : rank_recipes[i] = recipe

Key ==
    [ calorie |-> <<"c", "a", "l", "o", "r", "i", "e">>,
      protein |-> <<"p", "r", "o", "t", "e", "i", "n">>,
      carbohydrate |-> <<"c", "a", "r", "b", "o", "h", "y", "d", "r", "a",
                         "t", "e">>,
      fat |-> <<"f", "a", "t">>,
      saturated |-> <<"s", "a", "t", "u", "r", "a", "t", "e", "d">>,
      fiber |-> <<"f", "i", "b", "e", "r">>,
      sugar |-> <<"s", "u", "g", "a", "r">>,
      nutrients |-> <<"n", "u", "t", "r", "i", "e", "n", "t", "s">>,
      calories |-> <<"c", "a", "l", "o", "r", "i", "e", "s">>,
      carbohydrates |-> <<"c", "a", "r", "b", "o", "h", "y", "d", "r", "a",
                          "t", "e", "s">> ]

\* Python's truth value of a JSON value.
Falsy(value) ==
    \/ TypeOf(value) = "null"
    \/ TypeOf(value) = "num" /\ Held(value) = 0
    \/ TypeOf(value) \in {"str", "list"} /\ Len(Held(value)) = 0
    \/ TypeOf(value) = "dict" /\ DOMAIN Held(value) = {}

\* str(value) of an id: "None", the decimal digits, the text itself, "[]"
\* and "{}" (the model stringifies only empty lists and dicts).
PyStr(value) ==
    CASE TypeOf(value) = "null" -> Str.None
      [] TypeOf(value) = "num" -> IntToStr(Held(value))
      [] TypeOf(value) = "str" -> Held(value)
      [] TypeOf(value) = "list" /\ Len(Held(value)) = 0 -> <<"[", "]">>
      [] TypeOf(value) = "dict" /\ DOMAIN Held(value) = {} -> <<"{", "}">>

\* "for item in value": the items of a list, the characters of a str, the
\* keys of a dict (the model iterates only empty dicts); None and numbers
\* are not iterable.
Iterate(value) ==
    CASE TypeOf(value) = "list" -> Ok(Held(value))
      [] TypeOf(value) = "str" -> Ok([i \in 1..Len(Held(value)) |-> JStr(<<Held(value)[i]>>)])
      [] TypeOf(value) = "dict" /\ DOMAIN Held(value) = {} -> Ok(<<>>)
      [] OTHER -> Raise("TypeError")

\* item.get(key, default): only a dict has get.
ItemGet(item, key, default) ==
    IF TypeOf(item) = "dict" THEN Ok(DictGet(Held(item), key, default))
    ELSE Raise("AttributeError")

\* The exception of the first result that raised, "none" if none did.
FirstRaised(results) ==
    LET bad == {i \in 1..Len(results) : results[i].raised # "none"}
    IN  IF bad = {} THEN "none"
        ELSE results[CHOOSE i \in bad : \A j \in bad : i <= j].raised

Values(results) == [i \in 1..Len(results) |-> results[i].value]

\* sub in text, for two str
Contains(sub, text) ==
    \E i \in 0..(Len(text) - Len(sub)) : SubSeq(text, i + 1, i + Len(sub)) = sub

\* "nutrients" in raw_nutrition: a key of a dict, an element of a list, a
\* substring of a str; a number is not a container.
HasNutrients(raw_nutrition) ==
    CASE TypeOf(raw_nutrition) = "dict" -> Ok("nutrients" \in DOMAIN Held(raw_nutrition))
      [] TypeOf(raw_nutrition) = "list" ->
            Ok(\E i \in 1..Len(Held(raw_nutrition)) :
                  Held(raw_nutrition)[i] = JStr(Key.nutrients))
      [] TypeOf(raw_nutrition) = "str" -> Ok(Contains(Key.nutrients, Held(raw_nutrition)))
      [] OTHER -> Raise("TypeError")

\* raw_nutrition["nutrients"], reached only when "nutrients" in raw_nutrition:
\* a list or a str cannot be indexed by a str.
NutrientsOf(raw_nutrition) ==
    IF TypeOf(raw_nutrition) = "dict" THEN Ok(Held(raw_nutrition)["nutrients"])
    ELSE Raise("TypeError")

\* name = nutrient.get("name", "").lower(); amount = nutrient.get("amount", 0)
NutrientEntry(nutrient) ==
    LET name == ItemGet(nutrient, "name", JStr(Str.empty))
    IN  IF name.raised # "none" THEN Raise(name.raised)
        ELSE IF TypeOf(name.value) # "str" THEN Raise("AttributeError")
        ELSE Ok([name |-> Lower(Held(name.value)),
                 amount |-> DictGet(Held(nutrient), "amount", JNum(0))])

\* The nutrients of a payload as (lower-cased name, amount) pairs, in order.
NutrientEntries(raw_nutrition) ==
    LET nutrients == NutrientsOf(raw_nutrition)
        items == IF nutrients.raised = "none" THEN Iterate(nutrients.value)
                 ELSE Raise(nutrients.raised)
        entries == IF items.raised = "none"
                   THEN [i \in 1..Len(items.value) |->
                            NutrientEntry(items.value[i])]
                   ELSE <<>>
    IN  IF items.raised # "none" THEN Raise(items.raised)
        ELSE IF FirstRaised(entries) # "none" THEN Raise(FirstRaised(entries))
        ELSE Ok(Values(entries))

\* Mutant: a key already stored keeps its value.
Put_KeepFirst(d, key, value) ==
    [k \in DOMAIN d \cup {key} |-> IF k \in DOMAIN d THEN d[k] ELSE value]

\* d[key] = value
Put(d, key, value) ==
    [k \in DOMAIN d \cup {key} |-> IF k = key THEN value ELSE d[k]]

\* Mutant: fat is not among the names kept.
SummaryNutrients_NoFat == {Key.calories, Key.protein, Key.carbohydrates}

\* The four names _extract_nutrition keeps.
SummaryNutrients == {Key.calories, Key.protein, Key.carbohydrates, Key.fat}

\* The loop of _extract_nutrition over the first n entries.
RECURSIVE SummaryNutritionLoop(_, _)
SummaryNutritionLoop(entries, n) ==
    IF n = 0 THEN <<>>
    ELSE LET nutrition == SummaryNutritionLoop(entries, n - 1)
         IN  IF entries[n].name \in SummaryNutrients
             THEN Put(nutrition, entries[n].name, entries[n].amount)
             ELSE nutrition

\* _extract_nutrition: a dict from the kept lower-cased names to amounts.
extract_nutrition(raw_nutrition) ==
    IF Falsy(raw_nutrition) THEN Ok(<<>>)
    ELSE LET has == HasNutrients(raw_nutrition)
         IN  IF has.raised # "none" THEN Raise(has.raised)
             ELSE IF ~has.value THEN Ok(<<>>)
             ELSE LET entries == NutrientEntries(raw_nutrition)
                  IN  IF entries.raised # "none" THEN Raise(entries.raised)
                      ELSE Ok(SummaryNutritionLoop(entries.value,
                                                   Len(entries.value)))

\* One dict of _extract_ingredients.
SummaryIngredient(ingredient) ==
    IF TypeOf(ingredient) # "dict" THEN Raise("AttributeError")
    ELSE Ok([name |-> DictGet(Held(ingredient), "name", JNull),
             amount |-> DictGet(Held(ingredient), "amount", JNull),
             unit |-> DictGet(Held(ingredient), "unit", JNull),
             original_text |-> DictGet(Held(ingredient), "original", JNull)])

\* _extract_ingredients
extract_ingredients(raw_ingredients) ==
    LET items == Iterate(raw_ingredients)
        made == IF items.raised = "none"
                THEN [i \in 1..Len(items.value) |->
                         SummaryIngredient(items.value[i])]
                ELSE <<>>
    IN  IF items.raised # "none" THEN Raise(items.raised)
        ELSE IF FirstRaised(made) # "none" THEN Raise(FirstRaised(made))
        ELSE Ok(Values(made))

\* The dict _format_recipes appends for one raw recipe.
format_summary(recipe) ==
    LET ingredients ==
            extract_ingredients(DictGet(recipe, "extendedIngredients", JList(<<>>)))
        nutrition == extract_nutrition(DictGet(recipe, "nutrition", JDict(<<>>)))
    IN  IF ingredients.raised # "none" THEN Raise(ingredients.raised)
        ELSE IF nutrition.raised # "none" THEN Raise(nutrition.raised)
        ELSE Ok([id |-> JStr(PyStr(DictGet(recipe, "id", JNull))),
                 title |-> DictGet(recipe, "title", JNull),
                 description |-> DictGet(recipe, "summary", JStr(Str.empty)),
                 image_url |-> DictGet(recipe, "image", JNull),
                 prep_time_minutes |-> DictGet(recipe, "preparationMinutes", JNum(0)),
                 cook_time_minutes |-> DictGet(recipe, "cookingMinutes", JNum(0)),
                 total_time_minutes |-> DictGet(recipe, "readyInMinutes", JNum(0)),
                 servings |-> DictGet(recipe, "servings", JNum(1)),
                 source_url |-> DictGet(recipe, "sourceUrl", JNull),
                 cuisine_type |-> DictGet(recipe, "cuisines", JList(<<>>)),
                 dietary_tags |-> DictGet(recipe, "diets", JList(<<>>)),
                 ingredients |-> ingredients.value,
                 nutrition |-> nutrition.value,
                 source |-> JStr(Str.spoonacular)])

\* Mutant: servings defaults to 0.
format_recipes_ServingsDefaultZero(raw_recipes) ==
    LET formatted == [i \in 1..Len(raw_recipes) |-> format_summary(raw_recipes[i])]
    IN  IF FirstRaised(formatted) # "none" THEN Raise(FirstRaised(formatted))
        ELSE Ok([i \in 1..Len(raw_recipes) |->
                   [formatted[i].value EXCEPT
                       !.servings = DictGet(raw_recipes[i], "servings", JNum(0))]])

\* _format_recipes(raw_recipes)
format_recipes(raw_recipes) ==
    LET formatted == [i \in 1..Len(raw_recipes) |-> format_summary(raw_recipes[i])]
    IN  IF FirstRaised(formatted) # "none" THEN Raise(FirstRaised(formatted))
        ELSE Ok(Values(formatted))

(***************************************************************************)
(* The detail path: _format_single_recipe and _extract_nutrition_info.     *)
(***************************************************************************)
\* Mutant: the fat rule without its "saturated" exclusion.
ClassifyNutrient_AnyFat(name) ==
    IF Contains(Key.calorie, name) THEN "calories_per_serving"
    ELSE IF Contains(Key.protein, name) THEN "protein_grams"
    ELSE IF Contains(Key.carbohydrate, name) THEN "carbs_grams"
    ELSE IF Contains(Key.fat, name) THEN "fat_grams"
    ELSE IF Contains(Key.fiber, name) THEN "fiber_grams"
    ELSE IF Contains(Key.sugar, name) THEN "sugar_grams"
    ELSE "none"

\* The if/elif chain of _extract_nutrition_info: the field a lower-cased
\* nutrient name is stored under, "none" if no branch is taken.
ClassifyNutrient(name) ==
    IF Contains(Key.calorie, name) THEN "calories_per_serving"
    ELSE IF Contains(Key.protein, name) THEN "protein_grams"
    ELSE IF Contains(Key.carbohydrate, name) THEN "carbs_grams"
    ELSE IF Contains(Key.fat, name) /\ ~Contains(Key.saturated, name) THEN "fat_grams"
    ELSE IF Contains(Key.fiber, name) THEN "fiber_grams"
    ELSE IF Contains(Key.sugar, name) THEN "sugar_grams"
    ELSE "none"

\* The loop of _extract_nutrition_info over the first n entries.
RECURSIVE NutritionDataLoop(_, _)
NutritionDataLoop(entries, n) ==
    IF n = 0 THEN <<>>
    ELSE LET nutrition_data == NutritionDataLoop(entries, n - 1)
             field == ClassifyNutrient(entries[n].name)
         IN  IF field # "none"
             THEN Put(nutrition_data, field, entries[n].amount)
             ELSE nutrition_data

\* A JSON value held by an Optional field: null is None.
ToOptional(value) == IF TypeOf(value) = "null" THEN None ELSE Some(value)

\* NutritionInfo(**nutrition_data)
NutritionInfoOf(nutrition_data) ==
    NutritionInfo([f \in DOMAIN nutrition_data |-> ToOptional(nutrition_data[f])])

\* _extract_nutrition_info: Optional[NutritionInfo]
extract_nutrition_info(raw_nutrition) ==
    IF Falsy(raw_nutrition) THEN Ok(None)
    ELSE LET has == HasNutrients(raw_nutrition)
         IN  IF has.raised # "none" THEN Raise(has.raised)
             ELSE IF ~has.value THEN Ok(None)
             ELSE LET entries == NutrientEntries(raw_nutrition)
                  IN  IF entries.raised # "none" THEN Raise(entries.raised)
                      ELSE LET nutrition_data ==
                                  NutritionDataLoop(entries.value,
                                                    Len(entries.value))
                           IN  IF DOMAIN nutrition_data # {}
                               THEN Ok(Some(NutritionInfoOf(nutrition_data)))
                               ELSE Ok(None)

\* One Ingredient of _format_single_recipe.
DetailIngredient(ing) ==
    IF TypeOf(ing) # "dict" THEN Raise("AttributeError")
    ELSE Ok(Ingredient(DictGet(Held(ing), "name", JStr(Str.empty)),
                       DictGet(Held(ing), "amount", JNum(0)),
                       DictGet(Held(ing), "unit", JStr(Str.empty)),
                       ToOptional(DictGet(Held(ing), "original", JNull))))

\* ingredients = [Ingredient(...) for ing in recipe_data.get("extendedIngredients", [])]
DetailIngredients(recipe_data) ==
    LET items == Iterate(DictGet(recipe_data, "extendedIngredients", JList(<<>>)))
        made == IF items.raised = "none"
                THEN [i \in 1..Len(items.value) |-> DetailIngredient(items.value[i])]
                ELSE <<>>
    IN  IF items.raised # "none" THEN Raise(items.raised)
        ELSE IF FirstRaised(made) # "none" THEN Raise(FirstRaised(made))
        ELSE Ok(Values(made))

\* if recipe_data.get("nutrition"): nutrition = self._extract_nutrition_info(...)
DetailNutrition(recipe_data) ==
    LET raw == DictGet(recipe_data, "nutrition", JNull)
    IN  IF Falsy(raw) THEN Ok(None) ELSE extract_nutrition_info(raw)

\* step.get("step", "") for each step of instruction["steps"]
StepTexts(steps) ==
    LET items == Iterate(steps)
        texts == IF items.raised = "none"
                 THEN [i \in 1..Len(items.value) |->
                          ItemGet(items.value[i], "step", JStr(Str.empty))]
                 ELSE <<>>
    IN  IF items.raised # "none" THEN Raise(items.raised)
        ELSE IF FirstRaised(texts) # "none" THEN Raise(FirstRaised(texts))
        ELSE Ok(Values(texts))

\* What one element of recipe_data["instructions"] appends: the texts of its
\* steps if it is a dict with truthy "steps", itself if it is a str, nothing
\* otherwise.
InstructionTexts(instruction) ==
    IF TypeOf(instruction) = "dict" /\ ~Falsy(DictGet(Held(instruction), "steps", JNull))
    THEN StepTexts(Held(instruction)["steps"])
    ELSE IF TypeOf(instruction) = "str" THEN Ok(<<instruction>>)
    ELSE Ok(<<>>)

RECURSIVE Flatten(_)
Flatten(lists) ==
    IF Len(lists) = 0 THEN <<>> ELSE Head(lists) \o Flatten(Tail(lists))

\* The instructions loop of _format_single_recipe.
DetailInstructions(recipe_data) ==
    LET raw == DictGet(recipe_data, "instructions", JNull)
        items == IF Falsy(raw) THEN Ok(<<>>) ELSE Iterate(raw)
        parts == IF items.raised = "none"
                 THEN [i \in 1..Len(items.value) |->
                          InstructionTexts(items.value[i])]
                 ELSE <<>>
    IN  IF items.raised # "none" THEN Raise(items.raised)
        ELSE IF FirstRaised(parts) # "none" THEN Raise(FirstRaised(parts))
        ELSE Ok(Flatten(Values(parts)))

\* recipe_data.get("cuisines", [None])[0]
FirstCuisine(recipe_data) ==
    LET cuisines == DictGet(recipe_data, "cuisines", JList(<<JNull>>))
    IN  CASE TypeOf(cuisines) \in {"list", "str"} ->
                IF Len(Held(cuisines)) = 0 THEN Raise("IndexError")
                ELSE IF TypeOf(cuisines) = "list" THEN Ok(Held(cuisines)[1])
                ELSE Ok(JStr(<<Held(cuisines)[1]>>))
          [] TypeOf(cuisines) = "dict" -> Raise("KeyError")
          [] OTHER -> Raise("TypeError")

\* _format_single_recipe(recipe_data); now is datetime.now() at construction.
format_single_recipe(recipe_data, now) ==
    LET ingredients == DetailIngredients(recipe_data)
        nutrition == DetailNutrition(recipe_data)
        instructions == DetailInstructions(recipe_data)
        cuisine == FirstCuisine(recipe_data)
    IN  IF ingredients.raised # "none" THEN Raise(ingredients.raised)
        ELSE IF nutrition.raised # "none" THEN Raise(nutrition.raised)
        ELSE IF instructions.raised # "none" THEN Raise(instructions.raised)
        ELSE IF cuisine.raised # "none" THEN Raise(cuisine.raised)
        ELSE Ok([id |-> JStr(PyStr(DictGet(recipe_data, "id", JNull))),
                 title |-> DictGet(recipe_data, "title", JStr(Str.empty)),
                 description |-> DictGet(recipe_data, "summary", JStr(Str.empty)),
                 cuisine_type |-> ToOptional(cuisine.value),
                 dietary_tags |-> DictGet(recipe_data, "diets", JList(<<>>)),
                 prep_time_minutes |->
                     DictGet(recipe_data, "preparationMinutes", JNum(0)),
                 cook_time_minutes |-> DictGet(recipe_data, "cookingMinutes", JNum(0)),
                 total_time_minutes |-> DictGet(recipe_data, "readyInMinutes", JNum(0)),
                 servings |-> DictGet(recipe_data, "servings", JNum(1)),
                 difficulty_level |-> JStr(Str.intermediate),
                 ingredients |-> ingredients.value,
                 instructions |-> instructions.value,
                 nutrition |-> nutrition.value,
                 equipment_required |-> DictGet(recipe_data, "equipment", JList(<<>>)),
                 image_url |-> ToOptional(DictGet(recipe_data, "image", JNull)),
                 source_url |-> ToOptional(DictGet(recipe_data, "sourceUrl", JNull)),
                 source |-> JStr(Str.spoonacular),
                 created_at |-> now,
                 updated_at |-> now])

(***************************************************************************)
(* NormSpec: one raw recipe of the provider is normalised on both paths.   *)
(***************************************************************************)
MaxDegraded == 1
MaxNutrients == 2
MaxBlocks == 2

\* Nutrient names as the provider spells them.
Nutrient ==
    [ Calories |-> <<"C", "a", "l", "o", "r", "i", "e", "s">>,
      Protein |-> <<"P", "r", "o", "t", "e", "i", "n">>,
      Carbohydrates |-> <<"C", "a", "r", "b", "o", "h", "y", "d", "r", "a",
                          "t", "e", "s">>,
      Fat |-> <<"F", "a", "t">>,
      TotalFat |-> <<"T", "o", "t", "a", "l", " ", "F", "a", "t">>,
      SaturatedFat |-> <<"S", "a", "t", "u", "r", "a", "t", "e", "d", " ",
                         "F", "a", "t">>,
      TransFat |-> <<"T", "r", "a", "n", "s", " ", "F", "a", "t">>,
      Fiber |-> <<"F", "i", "b", "e", "r">>,
      Sugar |-> <<"S", "u", "g", "a", "r">>,
      Sodium |-> <<"S", "o", "d", "i", "u", "m">>,
      CaloriesFromFat |-> <<"C", "a", "l", "o", "r", "i", "e", "s", " ", "f",
                            "r", "o", "m", " ", "F", "a", "t">>,
      PROTEIN_FIBER |-> <<"P", "R", "O", "T", "E", "I", "N", " ", "F", "I",
                          "B", "E", "R">> ]

\* A complete raw recipe.
BaseItem ==
    [id |-> JNum(123),
     title |-> JStr(Str.T),
     summary |-> JStr(Str.mix),
     image |-> JStr(Str.x),
     preparationMinutes |-> JNum(15),
     cookingMinutes |-> JNum(30),
     readyInMinutes |-> JNum(45),
     servings |-> JNum(4),
     sourceUrl |-> JStr(Str.x),
     cuisines |-> JList(<<JStr(Str.vegan), JStr(Str.x)>>),
     diets |-> JList(<<JStr(Str.vegan)>>),
     extendedIngredients |->
        JList(<<JDict([name |-> JStr(Str.flour), amount |-> JNum(2),
                       unit |-> JStr(Str.cups), original |-> JStr(Str.sifted)])>>),
     nutrition |->
        JDict([nutrients |->
                 JList(<<JDict([name |-> JStr(Nutrient.Calories), amount |-> JNum(150)])>>)]),
     instructions |->
        JList(<<JDict([steps |-> JList(<<JDict([step |-> JStr(Str.mix)])>>)])>>),
     equipment |-> JList(<<JStr(Str.bowl)>>)]

\* What a degraded field holds when it is present: null, an empty list, or
\* a value of the wrong shape.
DegradedValues == {JNull, JList(<<>>), JStr(Str.x), JNum(7), JDict(<<>>)}

Without(d, keys) == [k \in DOMAIN d \ keys |-> d[k]]

\* BaseItem with at most MaxDegraded fields absent or degraded.
DegradedItems ==
    UNION { UNION { { [k \in DOMAIN BaseItem \ absent |->
                          IF k \in keys THEN degraded[k] ELSE BaseItem[k]] :
                      degraded \in [keys \ absent -> DegradedValues] } :
                    absent \in SUBSET keys } :
            keys \in {ks \in SUBSET DOMAIN BaseItem : Cardinality(ks) <= MaxDegraded} }

\* The nutrients of the provider: a name each; the amount of the i-th is
\* 10 * i unless the nutrient fixes it.
NutrientNames ==
    { Nutrient.Calories, Nutrient.Protein, Nutrient.Carbohydrates, Nutrient.Fat, Nutrient.TotalFat, Nutrient.SaturatedFat,
      Nutrient.TransFat, Nutrient.Fiber, Nutrient.Sugar, Nutrient.Sodium, Nutrient.CaloriesFromFat, Nutrient.PROTEIN_FIBER }

NutrientAt(name, i) == JDict([name |-> JStr(name), amount |-> JNum(10 * i)])

NutritionItems ==
    UNION { { [BaseItem EXCEPT !.nutrition =
                  JDict([nutrients |->
                     JList([i \in 1..n |-> NutrientAt(names[i], i)])])] :
              names \in [1..n -> NutrientNames] } :
            n \in 0..MaxNutrients }

\* Nutrition payloads that are degraded inside.
NestedNutritions ==
    { JDict([nutrients |-> JNull]),
      JDict([other |-> JList(<<>>)]),
      JList(<<JStr(Key.nutrients)>>),
      JDict([nutrients |-> JList(<<JDict(<<>>)>>)]),
      JDict([nutrients |-> JList(<<JDict([name |-> JNull, amount |-> JNum(1)])>>)]),
      JDict([nutrients |-> JList(<<JDict([name |-> JStr(Nutrient.Fat)])>>)]),
      JDict([nutrients |-> JList(<<JDict([name |-> JStr(Nutrient.Fat), amount |-> JNull])>>)]),
      JDict([nutrients |-> JList(<<JNull>>)]) }

NestedIngredients ==
    { JList(<<JDict(<<>>)>>),
      JList(<<JNull>>),
      JList(<<JDict([name |-> JNull, amount |-> JNull])>>) }

\* The elements an instructions list is made of.
InstructionBlocks ==
    { JStr(Str.mix),
      JDict([steps |-> JList(<<JDict([step |-> JStr(Str.bowl)]),
                               JDict([step |-> JStr(Str.x)])>>)]),
      JDict([steps |-> JList(<<JStr(Str.mix)>>)]),
      JDict([steps |-> JList(<<JDict(<<>>)>>)]),
      JDict([steps |-> JList(<<>>)]),
      JDict([name |-> JStr(Str.x)]),
      JDict([steps |-> JNum(7)]),
      JNum(7),
      JNull }

NestedItems ==
    { [BaseItem EXCEPT !.nutrition = v] : v \in NestedNutritions }
    \cup { [BaseItem EXCEPT !.extendedIngredients = v] : v \in NestedIngredients }
    \cup UNION { { [BaseItem EXCEPT !.instructions = JList(blocks)] :
                   blocks \in [1..n -> InstructionBlocks] } :
                 n \in 1..MaxBlocks }

RawItems == DegradedItems \cup NutritionItems \cup NestedItems

NormNows == {DateTime(12, 5)}

InitNorm ==
    /\ norm_raw \in RawItems
    /\ norm_batch \in {<<norm_raw>>, <<BaseItem, norm_raw>>}
    /\ norm_summary = None
    /\ norm_detail = None

\* SpoonacularService._format_recipes(data.get("results", []))
FormatRecipes ==
    /\ IsNone(norm_summary)
    /\ norm_summary' = Some(format_recipes(norm_batch))
    /\ UNCHANGED <<norm_raw, norm_batch, norm_detail>>
    /\ UNCHANGED not_norm_vars

\* SpoonacularService._format_single_recipe(data)
FormatSingleRecipe ==
    /\ IsNone(norm_detail)
    /\ \E now \in NormNows :
          norm_detail' = Some(format_single_recipe(norm_raw, now))
    /\ UNCHANGED <<norm_raw, norm_batch, norm_summary>>
    /\ UNCHANGED not_norm_vars

NormNext ==
    \/ FormatRecipes
    \/ FormatSingleRecipe

NormInit == InitNorm /\ ScaleIdle /\ SerialIdle /\ RankIdle /\ ToolIdle

NormSpec == NormInit /\ [][NormNext]_vars

(***************************************************************************)
(* Claims about normalisation, checked under NormSpec.                     *)
(***************************************************************************)
\* norm_raw is BaseItem except, possibly, for the field key.
OnlyDiffersIn(key) ==
    \A k \in DOMAIN BaseItem \ {key} :
        k \in DOMAIN norm_raw /\ norm_raw[k] = BaseItem[k]

\* The summary of norm_raw: norm_raw is the last item of norm_batch.
SummaryOfRaw == Get(norm_summary).value[Len(norm_batch)]

\* C8: the detail path reduces cuisine_type to the first element of the
\* provider's cuisine list, and to None when the list is empty or missing;
\* the summary path passes the list through as it is.
C8_CuisineReduction ==
    /\ (~IsNone(norm_detail) /\ OnlyDiffersIn("cuisines")) =>
          LET res == Get(norm_detail)
          IN  /\ "cuisines" \notin DOMAIN norm_raw =>
                    res.raised = "none" /\ res.value.cuisine_type = None
              /\ ("cuisines" \in DOMAIN norm_raw
                    /\ TypeOf(norm_raw.cuisines) = "list") =>
                    /\ res.raised = "none"
                    /\ res.value.cuisine_type =
                          IF Len(Held(norm_raw.cuisines)) = 0 THEN None
                          ELSE ToOptional(Held(norm_raw.cuisines)[1])
    /\ (~IsNone(norm_summary) /\ OnlyDiffersIn("cuisines")
          /\ ("cuisines" \in DOMAIN norm_raw => TypeOf(norm_raw.cuisines) = "list")) =>
          /\ Get(norm_summary).raised = "none"
          /\ SummaryOfRaw.cuisine_type =
                DictGet(norm_raw, "cuisines", JList(<<>>))

\* C9: normalisation never raises on degraded provider data, on either
\* path, and a raw recipe without id gets the id "None".
C9_NormalizationNeverFails ==
    /\ ~IsNone(norm_detail) =>
          /\ Get(norm_detail).raised = "none"
          /\ "id" \notin DOMAIN norm_raw => Get(norm_detail).value.id = JStr(Str.None)
    /\ ~IsNone(norm_summary) =>
          /\ Get(norm_summary).raised = "none"
          /\ "id" \notin DOMAIN norm_raw => SummaryOfRaw.id = JStr(Str.None)

\* The rules of nutrient classification as the claim orders them: the text
\* the lower-cased name must contain, the texts it must not, the field.
ClaimedRules ==
    << [has |-> Key.calorie, hasnot |-> {}, field |-> "calories_per_serving"],
       [has |-> Key.protein, hasnot |-> {}, field |-> "protein_grams"],
       [has |-> Key.carbohydrate, hasnot |-> {}, field |-> "carbs_grams"],
       [has |-> Key.fat, hasnot |-> {Key.saturated}, field |-> "fat_grams"],
       [has |-> Key.fiber, hasnot |-> {}, field |-> "fiber_grams"],
       [has |-> Key.sugar, hasnot |-> {}, field |-> "sugar_grams"] >>

\* The field of the first rule a name matches, "none" if it matches none.
ClaimedField(name) ==
    LET lname == Lower(name)
        matching == {i \in 1..Len(ClaimedRules) :
                        /\ Contains(ClaimedRules[i].has, lname)
                        /\ \A no \in ClaimedRules[i].hasnot : ~Contains(no, lname)}
    IN  IF matching = {} THEN "none"
        ELSE ClaimedRules[CHOOSE i \in matching : \A j \in matching : i <= j].field

\* The nutrition payload of norm_raw is a list of nutrients, each with a
\* text name and an amount.
NamedNutrients ==
    /\ OnlyDiffersIn("nutrition")
    /\ "nutrition" \in DOMAIN norm_raw
    /\ TypeOf(norm_raw.nutrition) = "dict"
    /\ DOMAIN Held(norm_raw.nutrition) = {"nutrients"}
    /\ TypeOf(Held(norm_raw.nutrition).nutrients) = "list"
    /\ \A i \in 1..Len(Held(Held(norm_raw.nutrition).nutrients)) :
          LET nutrient == Held(Held(norm_raw.nutrition).nutrients)[i]
          IN  /\ TypeOf(nutrient) = "dict"
              /\ DOMAIN Held(nutrient) = {"name", "amount"}
              /\ TypeOf(Held(nutrient).name) = "str"
              /\ TypeOf(Held(nutrient).amount) = "num"

RawNutrients == Held(Held(norm_raw.nutrition).nutrients)

\* The value of a field of the detail result's nutrition, None when the
\* result has no nutrition.
DetailNutritionField(f) ==
    LET nutrition == Get(norm_detail).value.nutrition
    IN  IF IsNone(nutrition) THEN None ELSE Get(nutrition)[f]

\* C10: on the detail path each nutrient goes to the field of the first
\* rule its name matches: a field is set exactly when some nutrient is
\* classified to it, and then holds the amount of such a nutrient; Saturated
\* Fat never sets fat_grams and Total Fat does.
C10_NutrientClassification ==
    (~IsNone(norm_detail) /\ NamedNutrients) =>
        /\ Get(norm_detail).raised = "none"
        /\ \A f \in NutritionFields :
              /\ ~IsNone(DetailNutritionField(f)) <=>
                    \E i \in 1..Len(RawNutrients) :
                        ClaimedField(Held(Held(RawNutrients[i]).name)) = f
              /\ ~IsNone(DetailNutritionField(f)) =>
                    \E i \in 1..Len(RawNutrients) :
                        /\ ClaimedField(Held(Held(RawNutrients[i]).name)) = f
                        /\ DetailNutritionField(f) = Some(Held(RawNutrients[i]).amount)
        /\ \A i \in 1..Len(RawNutrients) :
              /\ Held(Held(RawNutrients[i]).name) = Nutrient.SaturatedFat =>
                    DetailNutritionField("fat_grams")
                        # Some(Held(RawNutrients[i]).amount)
              /\ Held(Held(RawNutrients[i]).name) = Nutrient.TotalFat =>
                    ~IsNone(DetailNutritionField("fat_grams"))

\* C10 witness: Total Fat followed by Saturated Fat; fat_grams holds the
\* amount of Total Fat and nothing else is set.
C10_Witness ==
    /\ ~IsNone(norm_detail)
    /\ NamedNutrients
    /\ Len(RawNutrients) = 2
    /\ Held(Held(RawNutrients[1]).name) = Nutrient.TotalFat
    /\ Held(Held(RawNutrients[2]).name) = Nutrient.SaturatedFat
    /\ DetailNutritionField("fat_grams") = Some(JNum(10))
    /\ \A f \in NutritionFields \ {"fat_grams"} : IsNone(DetailNutritionField(f))

\* The detail result's nutrition: None or a NutritionInfo.
DetailNutritionOf == Get(norm_detail).value.nutrition

\* C11: a Recipe of the detail path has no nutrition or a NutritionInfo with
\* at least one field set; it has none when the raw payload is absent or no
\* nutrient of it is classified.
C11_NoEmptyNutritionInfo ==
    (~IsNone(norm_detail) /\ Get(norm_detail).raised = "none") =>
        /\ ~IsNone(DetailNutritionOf) =>
              \E f \in NutritionFields : ~IsNone(Get(DetailNutritionOf)[f])
        /\ "nutrition" \notin DOMAIN norm_raw => IsNone(DetailNutritionOf)
        /\ (NamedNutrients
              /\ \A i \in 1..Len(RawNutrients) :
                    ClaimedField(Held(Held(RawNutrients[i]).name)) = "none") =>
              IsNone(DetailNutritionOf)

\* The four names the claim lists for the summary's nutrition mapping.
ClaimedSummaryNames ==
    { <<"c", "a", "l", "o", "r", "i", "e", "s">>,
      <<"p", "r", "o", "t", "e", "i", "n">>,
      <<"c", "a", "r", "b", "o", "h", "y", "d", "r", "a", "t", "e", "s">>,
      <<"f", "a", "t">> }

\* The lower-cased name of the i-th raw nutrient.
RawLowerName(i) == Lower(Held(Held(RawNutrients[i]).name))

\* C12: the summary's nutrition mapping has only keys among calories,
\* protein, carbohydrates and fat; a nutrient contributes its amount under
\* its lower-cased name exactly when that name is one of the four, and an
\* absent payload gives the empty mapping.
C12_SummaryNutritionKeys ==
    ~IsNone(norm_summary) =>
        /\ Get(norm_summary).raised = "none" =>
              DOMAIN SummaryOfRaw.nutrition \subseteq ClaimedSummaryNames
        /\ (OnlyDiffersIn("nutrition") /\ "nutrition" \notin DOMAIN norm_raw) =>
              /\ Get(norm_summary).raised = "none"
              /\ DOMAIN SummaryOfRaw.nutrition = {}
        /\ NamedNutrients =>
              /\ Get(norm_summary).raised = "none"
              /\ \A i \in 1..Len(RawNutrients) :
                    RawLowerName(i) \in DOMAIN SummaryOfRaw.nutrition
                        <=> RawLowerName(i) \in ClaimedSummaryNames
              /\ \A k \in DOMAIN SummaryOfRaw.nutrition :
                    \E i \in 1..Len(RawNutrients) :
                        /\ RawLowerName(i) = k
                        /\ SummaryOfRaw.nutrition[k] = Held(RawNutrients[i]).amount

\* C12 witness: Fat and Saturated Fat; only fat is kept, with Fat's amount.
C12_Witness ==
    /\ ~IsNone(norm_summary)
    /\ NamedNutrients
    /\ Len(RawNutrients) = 2
    /\ Held(Held(RawNutrients[1]).name) = Nutrient.Fat
    /\ Held(Held(RawNutrients[2]).name) = Nutrient.SaturatedFat
    /\ DOMAIN SummaryOfRaw.nutrition = {<<"f", "a", "t">>}
    /\ SummaryOfRaw.nutrition[<<"f", "a", "t">>] = JNum(10)

\* The raw recipe has every field it has as the provider sends it: fields
\* may be absent, none is degraded.
AbsentOnly == \A k \in DOMAIN norm_raw : norm_raw[k] = BaseItem[k]

\* The value the claim gives a summary field: the provider's when the key
\* is present, the default otherwise.
ClaimedOrDefault(raw, key, default) ==
    IF key \in DOMAIN raw THEN raw[key] ELSE default

\* C13: the summaries are one per raw item, in input order; each has the
\* stringified provider id, the provider's three times (0 when absent) and
\* servings (1 when absent), and the fixed source tag.
C13_SummaryFields ==
    ~IsNone(norm_summary) =>
        /\ AbsentOnly => Get(norm_summary).raised = "none"
        /\ Get(norm_summary).raised = "none" =>
              /\ Len(Get(norm_summary).value) = Len(norm_batch)
              /\ \A i \in 1..Len(norm_batch) :
                    LET raw == norm_batch[i]
                        summary == Get(norm_summary).value[i]
                    IN  /\ ("id" \in DOMAIN raw /\ TypeOf(raw.id) = "num") =>
                              summary.id = JStr(IntToStr(Held(raw.id)))
                        /\ ("id" \in DOMAIN raw /\ TypeOf(raw.id) = "str") =>
                              summary.id = raw.id
                        /\ summary.prep_time_minutes =
                              ClaimedOrDefault(raw, "preparationMinutes", JNum(0))
                        /\ summary.cook_time_minutes =
                              ClaimedOrDefault(raw, "cookingMinutes", JNum(0))
                        /\ summary.total_time_minutes =
                              ClaimedOrDefault(raw, "readyInMinutes", JNum(0))
                        /\ summary.servings =
                              ClaimedOrDefault(raw, "servings", JNum(1))
                        /\ summary.source =
                              JStr(<<"s", "p", "o", "o", "n", "a", "c", "u", "l", "a", "r">>)

\* C13 witness: a batch of the complete recipe and one without servings and
\* with the times of the complete one.
C13_Witness ==
    /\ ~IsNone(norm_summary)
    /\ Len(norm_batch) = 2
    /\ "servings" \notin DOMAIN norm_raw
    /\ Get(norm_summary).raised = "none"
    /\ Get(norm_summary).value[1].servings = JNum(4)
    /\ Get(norm_summary).value[2].servings = JNum(1)
    /\ Get(norm_summary).value[2].id = JStr(<<"1", "2", "3">>)
    /\ Get(norm_summary).value[2].prep_time_minutes = JNum(15)
    /\ Get(norm_summary).value[2].cook_time_minutes = JNum(30)

\* What the claim has one instruction block contribute: the texts of its
\* steps if it has a steps list, itself if it is a str, nothing otherwise.
ClaimedBlockTexts(block) ==
    IF /\ TypeOf(block) = "dict"
       /\ "steps" \in DOMAIN Held(block)
       /\ TypeOf(Held(block).steps) = "list"
    THEN LET steps == Held(Held(block).steps)
         IN  [i \in 1..Len(steps) |->
                IF TypeOf(steps[i]) = "dict"
                THEN DictGet(Held(steps[i]), "step", JStr(<<>>))
                ELSE steps[i]]
    ELSE IF TypeOf(block) = "str" THEN <<block>>
    ELSE <<>>

\* norm_raw is the complete recipe but for its instructions, a list.
InstructionList ==
    /\ OnlyDiffersIn("instructions")
    /\ "instructions" \in DOMAIN norm_raw
    /\ TypeOf(norm_raw.instructions) = "list"

\* C14: the detail path flattens the instruction blocks in order: the texts
\* of the steps of a block with a steps list, a str block itself, nothing
\* for any other block.
C14_InstructionsFlattened ==
    (~IsNone(norm_detail) /\ InstructionList) =>
        /\ Get(norm_detail).raised = "none"
        /\ Get(norm_detail).value.instructions =
              Flatten([i \in 1..Len(Held(norm_raw.instructions)) |->
                          ClaimedBlockTexts(Held(norm_raw.instructions)[i])])

\* The last, in provider order, of a non-empty set of nutrient positions.
LastOf(positions) == CHOOSE i \in positions : \A j \in positions : j <= i

\* The positions of the raw nutrients the claim's rules send to field f, and
\* of those whose lower-cased name is k.
ClassifiedTo(f) ==
    {i \in 1..Len(RawNutrients) :
        ClaimedField(Held(Held(RawNutrients[i]).name)) = f}
NamedLike(k) == {i \in 1..Len(RawNutrients) : RawLowerName(i) = k}

\* C21: when several nutrients of a payload go to the same nutrition field
\* (detail path) or have the same kept lower-cased name (summary path), the
\* field holds the amount of the last of them in provider order, neither
\* the first nor a sum; a field no nutrient goes to stays absent.
C21_LastNutrientWins ==
    /\ (~IsNone(norm_detail) /\ NamedNutrients) =>
          /\ Get(norm_detail).raised = "none"
          /\ \A f \in NutritionFields :
                IF ClassifiedTo(f) = {}
                THEN IsNone(DetailNutritionField(f))
                ELSE DetailNutritionField(f) =
                        Some(Held(RawNutrients[LastOf(ClassifiedTo(f))]).amount)
    /\ (~IsNone(norm_summary) /\ NamedNutrients) =>
          /\ Get(norm_summary).raised = "none"
          /\ \A k \in ClaimedSummaryNames :
                IF NamedLike(k) = {}
                THEN k \notin DOMAIN SummaryOfRaw.nutrition
                ELSE /\ k \in DOMAIN SummaryOfRaw.nutrition
                     /\ SummaryOfRaw.nutrition[k] =
                           Held(RawNutrients[LastOf(NamedLike(k))]).amount

\* C21 witness: Fat with amount 10, then Fat again or Trans Fat with amount
\* 20, normalised on both paths; fat_grams holds 20 on the detail path and
\* no other field is set.
C21_Witness ==
    /\ ~IsNone(norm_detail)
    /\ ~IsNone(norm_summary)
    /\ NamedNutrients
    /\ Len(RawNutrients) = 2
    /\ Held(Held(RawNutrients[1]).name) = Nutrient.Fat
    /\ Held(Held(RawNutrients[2]).name) \in {Nutrient.Fat, Nutrient.TransFat}
    /\ Held(RawNutrients[1]).amount = JNum(10)
    /\ Held(RawNutrients[2]).amount = JNum(20)
    /\ DetailNutritionField("fat_grams") = Some(JNum(20))
    /\ \A f \in NutritionFields \ {"fat_grams"} : IsNone(DetailNutritionField(f))
    /\ <<"f", "a", "t">> \in DOMAIN SummaryOfRaw.nutrition

(***************************************************************************)
(* LoadSpec: from_dict is given a dict a caller supplies, the canonical    *)
(* form of an Ingredient or a Recipe with keys missing and timestamps that *)
(* are not ISO texts.                                                      *)
(***************************************************************************)
MaxMissing == 1

\* Texts datetime.fromisoformat rejects.
MalformedTimestamps == {Str.x, Str.empty}

\* The recipes whose canonical form is supplied.
LoadRecipes ==
    { r \in SerRecipes :
        /\ r.description = Str.mix
        /\ r.cuisine_type = Some(Str.vegan)
        /\ r.dietary_tags = <<Str.vegan>>
        /\ r.servings = MaxServings
        /\ r.created_at = DateTime(12, 5)
        /\ r.updated_at = DateTime(12, 500000)
        /\ r.nutrition # Some(NutritionInfo(<<>>)) }

\* The subsets of keys a supplied dict may lack.
MissingKeys(keys) == {ks \in SUBSET keys : Cardinality(ks) <= MaxMissing}

InitLoad ==
    /\ \/ ser_kind = "ingredient" /\ ser_subject \in SerIngredients
       \/ ser_kind = "recipe" /\ ser_subject \in LoadRecipes
    /\ ser_dict = None
    /\ ser_result = None

\* A caller builds the dict Ingredient.from_dict is given.
SupplyIngredientDict ==
    /\ ser_kind = "ingredient"
    /\ IsNone(ser_dict)
    /\ \E missing \in MissingKeys(DOMAIN Ingredient_to_dict(ser_subject)) :
          ser_dict' = Some(Without(Ingredient_to_dict(ser_subject), missing))
    /\ UNCHANGED <<ser_kind, ser_subject, ser_result>>
    /\ UNCHANGED not_serial_vars

\* A caller builds the dict Recipe.from_dict is given: top-level keys and
\* keys of the first ingredient may be missing, timestamps malformed.
SupplyRecipeDict ==
    /\ ser_kind = "recipe"
    /\ IsNone(ser_dict)
    /\ LET full == Recipe_to_dict(ser_subject)
       IN  \E missing \in MissingKeys(DOMAIN full),
              inner \in MissingKeys({"name", "amount", "unit", "notes"}),
              bad \in SUBSET TimeFields,
              text \in MalformedTimestamps :
                ser_dict' = Some(Without(
                    [k \in DOMAIN full |->
                        IF k \in bad THEN text
                        ELSE IF k = "ingredients" /\ Len(full.ingredients) > 0
                        THEN [full.ingredients EXCEPT
                                 ![1] = Without(full.ingredients[1], inner)]
                        ELSE full[k]],
                    missing))
    /\ UNCHANGED <<ser_kind, ser_subject, ser_result>>
    /\ UNCHANGED not_serial_vars

LoadNext ==
    \/ SupplyIngredientDict
    \/ SupplyRecipeDict
    \/ IngredientFromDict
    \/ RecipeFromDict

LoadInit == InitLoad /\ ScaleIdle /\ RankIdle /\ NormIdle /\ ToolIdle

LoadSpec == LoadInit /\ [][LoadNext]_vars

(***************************************************************************)
(* Claims about deserialisation, checked under LoadSpec.                   *)
(***************************************************************************)
\* The keys the claim requires of an Ingredient's and of a Recipe's dict.
ClaimedIngredientKeys == {"name", "amount", "unit"}
ClaimedRecipeKeys == {"id", "title"}

\* The defaults of the optional fields of a Recipe, but for the timestamps.
ClaimedDefaults ==
    [description |-> <<>>,
     cuisine_type |-> None,
     dietary_tags |-> <<>>,
     prep_time_minutes |-> 0,
     cook_time_minutes |-> 0,
     total_time_minutes |-> 0,
     servings |-> 1,
     difficulty_level |->
        <<"i", "n", "t", "e", "r", "m", "e", "d", "i", "a", "t", "e">>,
     ingredients |-> <<>>,
     instructions |-> <<>>,
     nutrition |-> None,
     equipment_required |-> <<>>,
     image_url |-> None,
     source_url |-> None,
     source |-> <<"u", "n", "k", "n", "o", "w", "n">>]

\* A required key is missing from the supplied dict, or from the dict of
\* one of its ingredients.
LacksRequired(data) ==
    IF ser_kind = "ingredient" THEN ~(ClaimedIngredientKeys \subseteq DOMAIN data)
    ELSE \/ ~(ClaimedRecipeKeys \subseteq DOMAIN data)
         \/ /\ "ingredients" \in DOMAIN data
            /\ \E i \in 1..Len(data.ingredients) :
                  ~(ClaimedIngredientKeys \subseteq DOMAIN data.ingredients[i])

\* A timestamp of the supplied dict is not an ISO text.
MalformedTimestamp(data) ==
    /\ ser_kind = "recipe"
    /\ \E k \in TimeFields \cap DOMAIN data : data[k] \in {<<>>, <<"x">>}

\* C15: from_dict raises KeyError exactly when a required key is missing
\* (name, amount, unit of an Ingredient; id, title of a Recipe), raises
\* ValueError on a malformed timestamp otherwise, and otherwise returns the
\* record, every missing optional field at its default; a call that raises
\* returns no record.
C15_MissingField ==
    ~IsNone(ser_result) =>
        LET data == Get(ser_dict)
            back == Get(ser_result)
        IN  /\ back.raised = "KeyError" <=> LacksRequired(data)
            /\ back.raised = "ValueError" <=>
                  (~LacksRequired(data) /\ MalformedTimestamp(data))
            /\ back.raised \in {"none", "KeyError", "ValueError"}
            /\ back.raised # "none" => back.value = None
            /\ (back.raised = "none" /\ ser_kind = "ingredient") =>
                  /\ \A k \in ClaimedIngredientKeys : back.value[k] = data[k]
                  /\ back.value.notes =
                        IF "notes" \in DOMAIN data THEN data.notes ELSE None
            /\ (back.raised = "none" /\ ser_kind = "recipe") =>
                  /\ \A k \in ClaimedRecipeKeys : back.value[k] = data[k]
                  /\ \A k \in DOMAIN ClaimedDefaults \ DOMAIN data :
                        back.value[k] = ClaimedDefaults[k]
                  /\ \A k \in TimeFields \ DOMAIN data :
                        back.value[k] \in SerDateTimes

\* C15 witness: a Recipe dict with id and without title was refused with
\* KeyError.
C15_Witness ==
    /\ ser_kind = "recipe"
    /\ ~IsNone(ser_result)
    /\ "title" \notin DOMAIN Get(ser_dict)
    /\ "id" \in DOMAIN Get(ser_dict)
    /\ Get(ser_result).raised = "KeyError"

(***************************************************************************)
(* Further claims about scale_recipe, checked under Spec.                  *)
(***************************************************************************)
\* C16: the returned recipe's id is the original id, "_scaled_" and the
\* decimal new_servings; its title is the original title, " (serves ", the
\* decimal new_servings and ")"; the original keeps its id and title.
C16_DerivedIdentity ==
    ~IsNone(scaled) =>
        LET o == Get(before).original
            r == Value(Get(scaled))
            n == IntToStr(Get(called))
        IN  /\ r.id = o.id \o <<"_", "s", "c", "a", "l", "e", "d", "_">> \o n
            /\ r.title = o.title
                  \o <<" ", "(", "s", "e", "r", "v", "e", "s", " ">> \o n \o <<")">>
            /\ Value(original).id = o.id
            /\ Value(original).title = o.title

\* C16 witness: Recipe(id="x", title="T").scale_recipe(3) returned a recipe
\* with id "x_scaled_3" and title "T (serves 3)".
C16_Witness ==
    /\ called = Some(3)
    /\ ~IsNone(scaled)
    /\ Value(Get(scaled)).id = <<"x", "_", "s", "c", "a", "l", "e", "d", "_", "3">>
    /\ Value(Get(scaled)).title =
          <<"T", " ", "(", "s", "e", "r", "v", "e", "s", " ", "3", ")">>
    /\ Value(original).id = <<"x">>

(***************************************************************************)
(* main.py, tools/ and SpoonacularService: a tool call from dispatch to    *)
(* response.                                                               *)
(*                                                                         *)
(* The outcome of a call that can raise is [raised, message, value]: the   *)
(* exception's class ("none" if it returned), str(e) as the pieces of its  *)
(* text, and the value returned.  The message of an error raised inside    *)
(* normalisation or ranking is abstracted to the name of its class.        *)
(***************************************************************************)
Thrown(type, message) == [raised |-> type, message |-> message, value |-> None]
Returned(v) == [raised |-> "none", message |-> <<>>, value |-> v]

\* Mutant: the key is never found missing.
KeySet_Always(api_key) == TRUE

\* The negation of "not self.api_key": the variable is set and not empty.
KeySet(api_key) == ~IsNone(api_key) /\ Len(Get(api_key)) > 0

\* raise ValueError("SPOONACULAR_API_KEY environment variable not set")
ApiKeyError ==
    Thrown("ValueError", <<"SPOONACULAR_API_KEY environment variable not set">>)

\* The tools handle_call_tool dispatches to.
ToolNames == {"search_recipes", "get_recipe_details"}

\* tool(**arguments) binds: the required parameter is given and no
\* parameter is unknown (a TypeError otherwise).
ValidArguments(name, arguments) ==
    IF name = "search_recipes"
    THEN /\ "query" \in DOMAIN arguments
         /\ DOMAIN arguments \subseteq
               {"query", "dietary_restrictions", "cuisine_type", "max_time",
                "number"}
    ELSE DOMAIN arguments = {"recipe_id"}

\* "filters_applied" of the search tool's payloads; a parameter that is not
\* given is None.
FiltersApplied(arguments) ==
    [k \in {"dietary_restrictions", "cuisine_type", "max_time"} |->
        IF k \in DOMAIN arguments THEN Some(arguments[k]) ELSE None]

\* The URL (as its pieces) and the params of the request of a service
\* method; ",".join(dietary_restrictions) is the diet.
RequestOf(name, api_key, arguments) ==
    IF name = "search_recipes"
    THEN LET filters == FiltersApplied(arguments)
             diets == IF IsNone(filters.dietary_restrictions) THEN <<>>
                      ELSE Get(filters.dietary_restrictions)
         IN  [url |-> <<"https://api.spoonacular.com/recipes", "/complexSearch">>,
              params |->
                 [k \in {"apiKey", "query", "number", "addRecipeInformation",
                         "fillIngredients"}
                        \cup (IF Len(diets) > 0 THEN {"diet"} ELSE {})
                        \cup (IF ~IsNone(filters.cuisine_type)
                                 /\ Len(Get(filters.cuisine_type)) > 0
                              THEN {"cuisine"} ELSE {})
                        \cup (IF ~IsNone(filters.max_time)
                                 /\ Get(filters.max_time) # 0
                              THEN {"maxReadyTime"} ELSE {}) |->
                    CASE k = "apiKey" -> api_key
                      [] k = "query" -> arguments.query
                      [] k = "number" -> DictGet(arguments, "number", 10)
                      [] k = "diet" ->
                            Flatten([i \in 1..Len(diets) |->
                                        IF i = 1 THEN diets[i]
                                        ELSE <<",">> \o diets[i]])
                      [] k = "cuisine" -> Get(filters.cuisine_type)
                      [] k = "maxReadyTime" -> Get(filters.max_time)
                      [] OTHER -> TRUE]]
    ELSE [url |-> <<"https://api.spoonacular.com/recipes", "/",
                    arguments.recipe_id, "/information">>,
          params |-> [apiKey |-> api_key, includeNutrition |-> TRUE]]

\* SpoonacularService.search_recipes from the response on: the provider's
\* fault is raised again, and so is an error of reading the data.
service_search_recipes(provider) ==
    IF provider.raised # "none" THEN provider
    ELSE IF TypeOf(provider.value) # "dict"
    THEN Thrown("AttributeError", <<"AttributeError">>)
    ELSE LET data == Held(provider.value)
             results == Iterate(DictGet(data, "results", JList(<<>>)))
         IN  IF results.raised # "none"
             THEN Thrown(results.raised, <<results.raised>>)
             ELSE IF \E i \in 1..Len(results.value) :
                        TypeOf(results.value[i]) # "dict"
             THEN Thrown("AttributeError", <<"AttributeError">>)
             ELSE LET formatted ==
                         format_recipes([i \in 1..Len(results.value) |->
                                            Held(results.value[i])])
                  IN  IF formatted.raised # "none"
                      THEN Thrown(formatted.raised, <<formatted.raised>>)
                      ELSE Returned(
                              [recipes |-> formatted.value,
                               total_results |->
                                  DictGet(data, "totalResults", JNum(0)),
                               source |-> Str.spoonacular])

\* Mutant: the provider's fault is raised again, as in search_recipes.
service_get_recipe_details_Reraises(provider, now) ==
    IF provider.raised # "none" THEN provider
    ELSE IF TypeOf(provider.value) # "dict" THEN Returned(None)
    ELSE LET recipe == format_single_recipe(Held(provider.value), now)
         IN  IF recipe.raised # "none" THEN Returned(None)
             ELSE Returned(Some(recipe.value))

\* SpoonacularService.get_recipe_details from the response on: None on a
\* fault of the provider and on any error of reading the data.
service_get_recipe_details(provider, now) ==
    IF provider.raised # "none" THEN Returned(None)
    ELSE IF TypeOf(provider.value) # "dict" THEN Returned(None)
    ELSE LET recipe == format_single_recipe(Held(provider.value), now)
         IN  IF recipe.raised # "none" THEN Returned(None)
             ELSE Returned(Some(recipe.value))

\* The body of the search tool's "async with" once the service returned or
\* raised: the results are sorted and the payload built.
search_recipes(service, arguments) ==
    IF service.raised # "none" THEN service
    ELSE LET sorted == sort_by_relevance(service.value.recipes, arguments.query)
         IN  IF sorted.raised # "none"
             THEN Thrown(sorted.raised, <<sorted.raised>>)
             ELSE Returned([recipes |-> sorted.value,
                            total_found |-> service.value.total_results,
                            query |-> arguments.query,
                            filters_applied |-> FiltersApplied(arguments),
                            source |-> service.value.source])

\* The body of the details tool's "async with": a payload for a recipe and
\* one for None.
get_recipe_details(service, arguments) ==
    IF service.raised # "none" THEN service
    ELSE IF ~IsNone(service.value)
    THEN Returned([recipe |-> Some(Recipe_to_dict(Get(service.value))),
                   found |-> TRUE,
                   source |-> Str.spoonacular])
    ELSE Returned([recipe |-> None,
                   found |-> FALSE,
                   error |-> <<"Recipe with ID ", arguments.recipe_id,
                               " not found">>,
                   source |-> Str.spoonacular])

\* Mutant: the error payload of the search tool reports the error only.
ErrorPayload_ErrorOnly(name, e, arguments) ==
    IF name = "search_recipes"
    THEN [recipes |-> <<>>,
          error |-> e.message]
    ELSE [recipe |-> None,
          found |-> FALSE,
          error |-> e.message,
          source |-> Str.spoonacular]

\* The payload a tool returns from its "except Exception as e".
ErrorPayload(name, e, arguments) ==
    IF name = "search_recipes"
    THEN [recipes |-> <<>>,
          total_found |-> JNum(0),
          query |-> arguments.query,
          error |-> e.message,
          filters_applied |-> FiltersApplied(arguments)]
    ELSE [recipe |-> None,
          found |-> FALSE,
          error |-> e.message,
          source |-> Str.spoonacular]

(***************************************************************************)
(* ToolSpec: up to MaxCalls calls run concurrently; each is a tool call    *)
(* arriving at handle_call_tool or a direct use of the service, as in the  *)
(* service's tests.  A call is suspended while the provider answers and    *)
(* while its session closes.                                               *)
(***************************************************************************)
MaxCalls == 2

\* The arguments a call comes with.
ToolArguments ==
    { [query |-> Query.beef, dietary_restrictions |-> <<Str.vegan>>],
      [recipe_id |-> "123"],
      [number |-> 5] }

\* What the provider answers to a request: a fault (of raise_for_status, of
\* response.json()) or the data.
ProviderResponses(name) ==
    { Thrown("ClientResponseError", <<"404, message='Not Found'">>),
      Thrown("JSONDecodeError", <<"Expecting value">>) }
    \cup IF name = "search_recipes"
         THEN { Returned(JDict([results |-> JList(<<JDict(BaseItem)>>),
                                totalResults |-> JNum(1)])),
                Returned(JDict([results |->
                                   JList(<<JDict(Without(BaseItem, {"title"}))>>)])) }
         ELSE { Returned(JDict(BaseItem)),
                Returned(JDict([BaseItem EXCEPT !.cuisines = JList(<<>>)])) }

ToolInit ==
    /\ tool_env \in {None, Some(Str.empty), Some(Str.x)}
    /\ tool_calls =
          [c \in 1..MaxCalls |->
              [pc |-> "start", kind |-> "none", name |-> "none",
               arguments |-> [number |-> 5], api_key |-> None,
               session |-> None, provider |-> None, service |-> None,
               outcome |-> None, response |-> None]]
    /\ tool_sessions = [c \in 1..MaxCalls |-> <<>>]
    /\ tool_requests = [c \in 1..MaxCalls |-> <<>>]
    /\ ScaleIdle /\ SerialIdle /\ RankIdle /\ NormIdle

\* handle_call_tool: dispatch on the tool's name; an unknown name and
\* arguments the tool cannot be called with end in the handler's except.
HandleCallTool(c) ==
    /\ tool_calls[c].pc = "start"
    /\ \E name \in ToolNames \cup {"unknown_tool"}, arguments \in ToolArguments :
          tool_calls' = [tool_calls EXCEPT ![c] =
              IF name \notin ToolNames
              THEN [@ EXCEPT !.kind = "rejected", !.name = name,
                             !.arguments = arguments, !.pc = "done",
                             !.response =
                                Some([type |-> "text",
                                      text |-> <<"Error: ", "Unknown tool: ", name>>])]
              ELSE IF ~ValidArguments(name, arguments)
              THEN [@ EXCEPT !.kind = "rejected", !.name = name,
                             !.arguments = arguments, !.pc = "done",
                             !.response =
                                Some([type |-> "text",
                                      text |-> <<"Error: ", "TypeError">>])]
              ELSE [@ EXCEPT !.kind = "tool", !.name = name,
                             !.arguments = arguments, !.pc = "tool"]]
    /\ UNCHANGED <<tool_env, tool_sessions, tool_requests>>
    /\ UNCHANGED not_tool_vars

\* async with SpoonacularService() as spoonacular: __init__ reads the key,
\* __aenter__ opens a session.
EnterService(c) ==
    /\ tool_calls[c].pc = "tool"
    /\ tool_sessions' = [tool_sessions EXCEPT ![c] =
                             Append(@, [owner |-> c, how |-> "aenter",
                                        open |-> TRUE, closed_by |-> 0])]
    /\ tool_calls' = [tool_calls EXCEPT ![c].api_key = tool_env,
                                        ![c].session = Some(Len(tool_sessions[c]) + 1),
                                        ![c].pc = "entered"]
    /\ UNCHANGED <<tool_env, tool_requests>>
    /\ UNCHANGED not_tool_vars

\* service = SpoonacularService(), used without "async with".
ServiceConstruct(c) ==
    /\ tool_calls[c].pc = "start"
    /\ \E name \in ToolNames :
       \E arguments \in {a \in ToolArguments : ValidArguments(name, a)} :
          tool_calls' = [tool_calls EXCEPT ![c] =
              [@ EXCEPT !.kind = "service", !.name = name,
                        !.arguments = arguments, !.api_key = tool_env,
                        !.pc = "entered"]]
    /\ UNCHANGED <<tool_env, tool_sessions, tool_requests>>
    /\ UNCHANGED not_tool_vars

\* SpoonacularService.search_recipes / get_recipe_details up to the request:
\* the key is checked, a session is created if there is none, the request
\* is issued.
ServiceRequest(c) ==
    LET call == tool_calls[c]
    IN  /\ call.pc = "entered"
        /\ IF ~KeySet(call.api_key)
           THEN /\ tool_calls' = [tool_calls EXCEPT ![c] =
                      [@ EXCEPT !.service = Some(ApiKeyError),
                                !.pc = IF call.kind = "service" THEN "done"
                                       ELSE "returned"]]
                /\ UNCHANGED <<tool_sessions, tool_requests>>
           ELSE LET address == IF IsNone(call.session)
                               THEN Len(tool_sessions[c]) + 1
                               ELSE Get(call.session)
                IN  /\ tool_sessions' =
                          IF IsNone(call.session)
                          THEN [tool_sessions EXCEPT ![c] =
                                   Append(@, [owner |-> c, how |-> "lazy",
                                              open |-> TRUE, closed_by |-> 0])]
                          ELSE tool_sessions
                    /\ tool_requests' = [tool_requests EXCEPT ![c] =
                          Append(@,
                                 [call |-> c,
                                  session |-> address,
                                  session_open |-> tool_sessions'[c][address].open,
                                  request |-> RequestOf(call.name, call.api_key,
                                                        call.arguments)])]
                    /\ tool_calls' = [tool_calls EXCEPT
                                         ![c].session = Some(address),
                                         ![c].pc = "requested"]
        /\ UNCHANGED tool_env
        /\ UNCHANGED not_tool_vars

\* The provider answers and the service method handles the answer: it
\* returns or raises.
ProviderResponds(c) ==
    LET call == tool_calls[c]
    IN  /\ call.pc = "requested"
        /\ \E provider \in ProviderResponses(call.name), now \in NormNows :
              tool_calls' = [tool_calls EXCEPT ![c] =
                  [@ EXCEPT !.provider = Some(provider),
                            !.service =
                               Some(IF call.name = "search_recipes"
                                    THEN service_search_recipes(provider)
                                    ELSE service_get_recipe_details(provider,
                                                                    now)),
                            !.pc = IF call.kind = "service" THEN "done"
                                   ELSE "returned"]]
        /\ UNCHANGED <<tool_env, tool_sessions, tool_requests>>
        /\ UNCHANGED not_tool_vars

\* The rest of the body of the tool's "async with", after the await of the
\* service method.
ToolBody(c) ==
    LET call == tool_calls[c]
    IN  /\ call.pc = "returned"
        /\ tool_calls' = [tool_calls EXCEPT
                             ![c].outcome =
                                Some(IF call.name = "search_recipes"
                                     THEN search_recipes(Get(call.service),
                                                         call.arguments)
                                     ELSE get_recipe_details(Get(call.service),
                                                             call.arguments)),
                             ![c].pc = "exiting"]
        /\ UNCHANGED <<tool_env, tool_sessions, tool_requests>>
        /\ UNCHANGED not_tool_vars

\* Mutant: the session is left open.
ExitService_Leaks(c) ==
    /\ tool_calls[c].pc = "exiting"
    /\ tool_calls' = [tool_calls EXCEPT ![c].pc = "exited"]
    /\ UNCHANGED <<tool_env, tool_sessions, tool_requests>>
    /\ UNCHANGED not_tool_vars

\* __aexit__: the session, if there is one, is closed.
ExitService(c) ==
    /\ tool_calls[c].pc = "exiting"
    /\ tool_sessions' =
          IF ~IsNone(tool_calls[c].session)
          THEN [tool_sessions EXCEPT
                   ![c][Get(tool_calls[c].session)].open = FALSE,
                   ![c][Get(tool_calls[c].session)].closed_by = c]
          ELSE tool_sessions
    /\ tool_calls' = [tool_calls EXCEPT ![c].pc = "exited"]
    /\ UNCHANGED <<tool_env, tool_requests>>
    /\ UNCHANGED not_tool_vars

\* The tool returns its payload, from the "async with" or from its except,
\* and handle_call_tool answers with str(result).
ToolReturn(c) ==
    LET call == tool_calls[c]
        outcome == Get(call.outcome)
        payload == IF outcome.raised = "none" THEN outcome.value
                   ELSE ErrorPayload(call.name, outcome, call.arguments)
    IN  /\ call.pc = "exited"
        /\ tool_calls' = [tool_calls EXCEPT
                             ![c].response = Some([type |-> "text",
                                                   text |-> <<"str", payload>>]),
                             ![c].pc = "done"]
        /\ UNCHANGED <<tool_env, tool_sessions, tool_requests>>
        /\ UNCHANGED not_tool_vars

ToolNext ==
    \E c \in 1..MaxCalls :
        \/ HandleCallTool(c)
        \/ EnterService(c)
        \/ ServiceConstruct(c)
        \/ ServiceRequest(c)
        \/ ProviderResponds(c)
        \/ ToolBody(c)
        \/ ExitService(c)
        \/ ToolReturn(c)

ToolSpec == ToolInit /\ [][ToolNext]_vars

(***************************************************************************)
(* Claims about the tool layer, checked under ToolSpec.                    *)
(***************************************************************************)
\* The text of the response of a call and, when the text is str(result), the
\* payload it was made from.
ResponseText(c) == Get(tool_calls[c].response).text
ResponsePayload(c) == ResponseText(c)[2]

\* The filters the claim expects in a payload of the search tool.
ClaimedFilters(arguments) ==
    [dietary_restrictions |->
        IF "dietary_restrictions" \in DOMAIN arguments
        THEN Some(arguments.dietary_restrictions) ELSE None,
     cuisine_type |->
        IF "cuisine_type" \in DOMAIN arguments
        THEN Some(arguments.cuisine_type) ELSE None,
     max_time |->
        IF "max_time" \in DOMAIN arguments
        THEN Some(arguments.max_time) ELSE None]

\* C17: a tool call always ends in a textual response.  When the service
\* raised during a search_recipes tool call the payload has no recipes,
\* total_found 0, the query, the filters and the error's message; a call
\* handle_call_tool cannot dispatch (unknown tool, arguments that do not
\* fit) is answered with "Error: ...".
C17_ToolNeverPropagates ==
    \A c \in 1..MaxCalls :
        LET call == tool_calls[c]
        IN  /\ (call.kind \in {"tool", "rejected"} /\ call.pc = "done") =>
                  /\ ~IsNone(call.response)
                  /\ Get(call.response).type = "text"
            /\ call.kind = "rejected" =>
                  /\ call.pc = "done"
                  /\ ResponseText(c)[1] = "Error: "
                  /\ call.name \notin {"search_recipes", "get_recipe_details"} =>
                        ResponseText(c) = <<"Error: ", "Unknown tool: ", call.name>>
            /\ (call.kind = "tool" /\ call.pc = "done") =>
                  ResponseText(c)[1] = "str"
            /\ (/\ call.kind = "tool"
                /\ call.name = "search_recipes"
                /\ call.pc = "done"
                /\ Get(call.service).raised # "none") =>
                  /\ {"recipes", "total_found", "query", "filters_applied",
                      "error"} \subseteq DOMAIN ResponsePayload(c)
                  /\ ResponsePayload(c).recipes = <<>>
                  /\ ResponsePayload(c).total_found = JNum(0)
                  /\ ResponsePayload(c).query = call.arguments.query
                  /\ ResponsePayload(c).filters_applied =
                        ClaimedFilters(call.arguments)
                  /\ ResponsePayload(c).error = Get(call.service).message

\* C17 witness: the provider answered a search with an HTTP error and the
\* tool returned the error payload.
C17_Witness ==
    \E c \in 1..MaxCalls :
        /\ tool_calls[c].kind = "tool"
        /\ tool_calls[c].name = "search_recipes"
        /\ tool_calls[c].pc = "done"
        /\ ~IsNone(tool_calls[c].provider)
        /\ Get(tool_calls[c].provider).raised = "ClientResponseError"
        /\ Get(tool_calls[c].service).raised = "ClientResponseError"
        /\ ResponsePayload(c).error = <<"404, message='Not Found'">>
        /\ ResponsePayload(c).filters_applied.dietary_restrictions
              = Some(<<Str.vegan>>)

\* A call of get_recipe_details whose service was built with a key and has
\* returned or raised.
DetailsAnswered(c) ==
    /\ tool_calls[c].kind \in {"tool", "service"}
    /\ tool_calls[c].name = "get_recipe_details"
    /\ ~IsNone(tool_calls[c].api_key)
    /\ Len(Get(tool_calls[c].api_key)) > 0
    /\ ~IsNone(tool_calls[c].service)

\* The provider's answer to the call was a fault or data normalisation
\* raises on.
ProviderFailed(c) ==
    LET provider == Get(tool_calls[c].provider)
    IN  \/ provider.raised # "none"
        \/ /\ provider.raised = "none"
           /\ \A now \in NormNows :
                 format_single_recipe(Held(provider.value), now).raised # "none"

\* C18: with a key, the service's get_recipe_details never raises and
\* returns None when the request or the normalisation failed; the tool's
\* payload has found = False, no recipe and the "not found" text exactly
\* when the service returned None, and found = True with the recipe's
\* to_dict otherwise.
C18_DetailsNeverRaise ==
    \A c \in 1..MaxCalls :
        DetailsAnswered(c) =>
            LET call == tool_calls[c]
                service == Get(call.service)
            IN  /\ service.raised = "none"
                /\ ProviderFailed(c) => IsNone(service.value)
                /\ (call.kind = "tool" /\ call.pc = "done") =>
                      /\ {"recipe", "found"} \subseteq DOMAIN ResponsePayload(c)
                      /\ ResponsePayload(c).found = ~IsNone(service.value)
                      /\ IF IsNone(service.value)
                         THEN /\ IsNone(ResponsePayload(c).recipe)
                              /\ "error" \in DOMAIN ResponsePayload(c)
                              /\ ResponsePayload(c).error =
                                    <<"Recipe with ID ", call.arguments.recipe_id,
                                      " not found">>
                         ELSE /\ ResponsePayload(c).recipe =
                                    Some(Recipe_to_dict(Get(service.value)))
                              /\ "error" \notin DOMAIN ResponsePayload(c)

\* C18 witness: the provider's data had an empty cuisines list, the service
\* returned None and the tool answered "not found".
C18_Witness ==
    \E c \in 1..MaxCalls :
        /\ DetailsAnswered(c)
        /\ tool_calls[c].kind = "tool"
        /\ tool_calls[c].pc = "done"
        /\ Get(tool_calls[c].provider).raised = "none"
        /\ ProviderFailed(c)
        /\ ResponsePayload(c).found = FALSE

\* The key is not set: the variable is missing or empty.
KeyNotSet(api_key) == IsNone(api_key) \/ Len(Get(api_key)) = 0

\* C19: a service built without SPOONACULAR_API_KEY raises the ValueError
\* naming the variable from either method, having created no session
\* lazily and issued no request; every request was issued with the key of
\* the environment, which is set.
C19_NoKeyNoRequest ==
    /\ \A c \in 1..MaxCalls :
          LET call == tool_calls[c]
          IN  (/\ call.kind \in {"tool", "service"}
               /\ call.pc \notin {"start", "tool"}
               /\ KeyNotSet(call.api_key)) =>
                  /\ call.pc # "requested"
                  /\ call.pc # "entered" =>
                        /\ Get(call.service).raised = "ValueError"
                        /\ Get(call.service).message =
                              <<"SPOONACULAR_API_KEY environment variable not set">>
                  /\ tool_sessions[c] = <<>> \/ call.kind = "tool"
                  /\ \A a \in 1..Len(tool_sessions[c]) :
                        tool_sessions[c][a].how # "lazy"
                  /\ tool_requests[c] = <<>>
    /\ \A c \in 1..MaxCalls : \A i \in 1..Len(tool_requests[c]) :
          /\ ~KeyNotSet(tool_env)
          /\ tool_requests[c][i].request.params.apiKey = tool_env

\* C19 witness: without the variable, a direct call of a service method
\* raised; there is no session and no request.
C19_Witness ==
    /\ IsNone(tool_env)
    /\ \E c \in 1..MaxCalls :
          /\ tool_sessions[c] = <<>>
          /\ tool_requests[c] = <<>>
          /\ tool_calls[c].kind = "service"
          /\ tool_calls[c].name = "search_recipes"
          /\ tool_calls[c].pc = "done"
          /\ Get(tool_calls[c].service).raised = "ValueError"

\* The sessions a call opened.
SessionsOf(c) == 1..Len(tool_sessions[c])

\* C20: a tool execution opens exactly one session, on entering the service
\* (never lazily), keeps it open while it runs and has closed it itself
\* before it returns its payload; a session is closed by its owner only and
\* every request goes out on an open session of the requesting call.
C20_OneSessionPerTool ==
    /\ \A c \in 1..MaxCalls :
          LET call == tool_calls[c]
          IN  call.kind = "tool" =>
                /\ call.pc = "tool" => SessionsOf(c) = {}
                /\ call.pc # "tool" =>
                      /\ Cardinality(SessionsOf(c)) = 1
                      /\ \A a \in SessionsOf(c) :
                            /\ tool_sessions[c][a].how = "aenter"
                            /\ call.session = Some(a)
                /\ call.pc \in {"entered", "requested", "returned", "exiting"} =>
                      \A a \in SessionsOf(c) : tool_sessions[c][a].open
                /\ (call.pc \in {"exited", "done"} \/ ~IsNone(call.response)) =>
                      \A a \in SessionsOf(c) :
                          /\ ~tool_sessions[c][a].open
                          /\ tool_sessions[c][a].closed_by = c
    /\ \A c \in 1..MaxCalls : \A a \in SessionsOf(c) :
          /\ tool_sessions[c][a].owner = c
          /\ tool_sessions[c][a].closed_by \in {0, c}
    /\ \A c \in 1..MaxCalls : \A i \in 1..Len(tool_requests[c]) :
          /\ tool_requests[c][i].call = c
          /\ tool_requests[c][i].session_open
          /\ tool_requests[c][i].session \in SessionsOf(c)

\* C20 witness: two tool calls ran interleaved; the first has returned with
\* its session closed while the second, its request out, has its own
\* session open.
C20_Witness ==
    /\ tool_calls[1].kind = "tool" /\ tool_calls[1].pc = "done"
    /\ tool_calls[2].kind = "tool" /\ tool_calls[2].pc = "requested"
    /\ Len(tool_sessions[1]) = 1 /\ ~tool_sessions[1][1].open
    /\ Len(tool_sessions[2]) = 1 /\ tool_sessions[2][1].open
    /\ Len(tool_requests[1]) = 1 /\ Len(tool_requests[2]) = 1

====
